---------------------------- MODULE Spec2Model ----------------------------
(***************************************************************************)
(* A state-machine model of the path-conflict and deadlock-prediction      *)
(* feature engine of src/observations.py (class CustomObservation).        *)
(*                                                                         *)
(* Conventions                                                             *)
(*  - numpy arrays are functions over 0..n-1, so that the indices of the   *)
(*    source are kept; Python lists (paths, edges) are too.                *)
(*  - a graph node (row, col, orientation) is <<cell, dir>>: the pair      *)
(*    (row, col) is one cell identifier. The padding of the numpy arrays   *)
(*    (-1, -1, -1) / (-1, -1) is <<-1, -1>> / -1.                          *)
(*  - a float is an extended rational [k, n, d]: k = "fin" with the        *)
(*    reduced fraction n/d, or "pinf", "ninf", "nan".                      *)
(***************************************************************************)
EXTENDS Integers, Sequences, FiniteSets, TLC

(***************************************************************************)
(* Bounds of the model.                                                    *)
(***************************************************************************)
MaxAgents == 2
MaxWeight == 3
MaxTicks == 3
MaxCalls == 2
MaxMalfunction == 1

(***************************************************************************)
(* Program constants.                                                      *)
(***************************************************************************)
FEATURES == 12
LOWER == -1
UPPER == 1
UNDER == -2
OVER == 2
max_depth == 3

(***************************************************************************)
(* Extended rationals (numpy float64 values, exact).                       *)
(***************************************************************************)
Abs(x) == IF x < 0 THEN -x ELSE x

Max2(a, b) == IF a >= b THEN a ELSE b

RECURSIVE GCD(_, _)
GCD(a, b) == IF b = 0 THEN a ELSE GCD(b, a % b)

\* the ceiling of n/d for d > 0
CeilDiv(n, d) == -((-n) \div d)

Fin(n, d) ==
    LET s == IF d < 0 THEN -1 ELSE 1
        g == GCD(Abs(n), Abs(d))
    IN  [k |-> "fin", n |-> (s * n) \div g, d |-> (s * d) \div g]

Num(x) == [k |-> "fin", n |-> x, d |-> 1]

PInf == [k |-> "pinf", n |-> 0, d |-> 1]

NInf == [k |-> "ninf", n |-> 0, d |-> 1]

NaN == [k |-> "nan", n |-> 0, d |-> 1]

IsFin(v) == v.k = "fin"

\* v < w, v <= w on floats: every comparison with a NaN is false
Lt(v, w) ==
    CASE v.k = "nan" \/ w.k = "nan" -> FALSE
      [] v.k = "pinf" -> FALSE
      [] w.k = "ninf" -> FALSE
      [] v.k = "ninf" -> TRUE
      [] w.k = "pinf" -> TRUE
      [] OTHER -> v.n * w.d < w.n * v.d

Le(v, w) ==
    CASE v.k = "nan" \/ w.k = "nan" -> FALSE
      [] v.k = "ninf" -> TRUE
      [] w.k = "pinf" -> TRUE
      [] v.k = "pinf" -> FALSE
      [] w.k = "ninf" -> FALSE
      [] OTHER -> v.n * w.d <= w.n * v.d

\* v - w and v + w for finite w
SubFin(v, w) == IF IsFin(v) THEN Fin(v.n * w.d - w.n * v.d, v.d * w.d) ELSE v

AddFin(v, w) == IF IsFin(v) THEN Fin(v.n * w.d + w.n * v.d, v.d * w.d) ELSE v


(***************************************************************************)
(* State.                                                                  *)
(*  Environment (external collaborators: the rail environment, the routing *)
(*  graph and the predictor):                                              *)
(*    world           per agent, where it is on its route                  *)
(*    tick            environment steps taken in this episode              *)
(*  CustomObservation:                                                     *)
(*    agent_handles, speed_data, last_nodes, last_positions   (reset)      *)
(*    predictions, shortest_paths, shortest_positions,                     *)
(*    shortest_cum_weights                                    (get_many)   *)
(*    observations                                            (get)        *)
(*  Control:                                                               *)
(*    pending         handles get_many still has to pass to get            *)
(*    calls           get_many calls since the last environment step       *)
(*    raw             the tensor of get before normalize (lines 205-227)   *)
(*    normalized_observation   the tensor normalize holds at its assert    *)
(*    failed          the range assertion of normalize has failed          *)
(*  The episode loop of train_agents and eval_policy:                      *)
(*    start_lists     what get_agents_same_start returned at reset         *)
(*    agents_with_same_start   the same lists, as the loop shortens them   *)
(*    step            the step of the episode                              *)
(*    action_required info['action_required']                              *)
(*    action_dict     the actions of the step                              *)
(*    pc              where the body of the loop is                        *)
(*  policy_utils:                                                          *)
(*    vec, mask       the arguments of masked_max and masked_argmax        *)
(*    max_arr, argmax_arr   what the two functions returned                *)
(***************************************************************************)
VARIABLES world, tick, agent_handles, speed_data, last_nodes, last_positions,
          predictions, shortest_paths, shortest_positions,
          shortest_cum_weights, observations, pending, calls, raw,
          normalized_observation, failed,
          start_lists, agents_with_same_start, step, action_required,
          action_dict, pc,
          vec, mask, max_arr, argmax_arr

vars == <<world, tick, agent_handles, speed_data, last_nodes, last_positions,
          predictions, shortest_paths, shortest_positions,
          shortest_cum_weights, observations, pending, calls, raw,
          normalized_observation, failed,
          start_lists, agents_with_same_start, step, action_required,
          action_dict, pc,
          vec, mask, max_arr, argmax_arr>>

observation_vars ==
    <<world, tick, agent_handles, speed_data, last_nodes, last_positions,
      predictions, shortest_paths, shortest_positions,
      shortest_cum_weights, observations, pending, calls, raw,
      normalized_observation, failed>>

loop_vars == <<start_lists, agents_with_same_start, step, action_required,
               action_dict, pc>>

policy_vars == <<vec, mask, max_arr, argmax_arr>>

env_vars == <<world, tick>>

agent_vars == <<agent_handles, speed_data, last_nodes, last_positions>>

tick_vars == <<predictions, shortest_paths, shortest_positions,
               shortest_cum_weights>>

Depth == 0..(max_depth - 1)

Size(f) == Cardinality(DOMAIN f)

NoNode == <<-1, -1>>

Position(node) == node[1]

(***************************************************************************)
(* The rail world: junction cells 1, 2, 3 on a main line and a passing     *)
(* loop 2 - 4 - 3; every junction cell is a graph node in both             *)
(* orientations (0: towards 3, 1: towards 1). The cells of a track between *)
(* two junctions are not graph nodes.                                      *)
(***************************************************************************)
Junctions == 1..4

graph_nodes == {<<c, d>> : c \in Junctions, d \in 0..1}

\* graph.successors(node), in the order of the adjacency list
successors(node) ==
    CASE node = <<1, 0>> -> <<<<2, 0>>>>
      [] node = <<2, 0>> -> <<<<3, 0>>, <<4, 0>>>>
      [] node = <<4, 0>> -> <<<<3, 0>>>>
      [] node = <<3, 1>> -> <<<<2, 1>>, <<4, 1>>>>
      [] node = <<4, 1>> -> <<<<2, 1>>>>
      [] node = <<2, 1>> -> <<<<1, 1>>>>
      [] OTHER -> <<>>

\* railway_encoding.get_nodes(cell): the node variants at a cell
get_nodes(cell) == <<<<cell, 0>>, <<cell, 1>>>>

\* the k-th cell of the track from junction a to junction b
MidCell(a, b, k, w) ==
    IF a < b THEN 100 * a + 10 * b + k ELSE 100 * b + 10 * a + (w - k)

Routes == { <<2, 3>>, <<1, 2, 3>>, <<3, 2>>, <<3, 2, 1>> }

RouteDir(r) == IF r[1] < r[Len(r)] THEN 0 ELSE 1

\* the weights of the edges of a route: all 1, or the first one long
RouteWeights(r, first) == [i \in 1..(Len(r) - 1) |-> IF i = 1 THEN first ELSE 1]

\* an agent of the environment on its route: between route[leg] and
\* route[leg + 1], `off` cells past route[leg], `sub` ticks into the cell
Start(r, first, speed, malfunction) ==
    [route |-> r, w |-> RouteWeights(r, first), speed |-> speed, leg |-> 1,
     off |-> 0, sub |-> 0, malfunction |-> malfunction, done |-> FALSE]

\* the agents an episode may start with: every route at full speed, with a
\* short or a long first edge, slow (speed 1/2 or 3/5), or malfunctioning;
\* one slow agent has a long first edge
Starts ==
    {Start(r, first, <<1, 1>>, 0) : r \in Routes, first \in {1, MaxWeight}}
    \cup {Start(r, 1, <<1, 2>>, 0) : r \in Routes}
    \cup {Start(<<1, 2, 3>>, MaxWeight, <<1, 2>>, 0)}
    \cup {Start(r, 1, <<3, 5>>, 0) : r \in Routes}
    \cup {Start(r, 1, <<1, 1>>, m) : r \in Routes, m \in 1..MaxMalfunction}

\* agent.speed_data["speed"] and ["position_fraction"], as fractions
Speed(a) == a.speed

PositionFraction(a) == <<a.sub * a.speed[1], a.speed[2]>>

AgentNode(a) ==
    IF a.off = 0
    THEN <<a.route[a.leg], RouteDir(a.route)>>
    ELSE <<MidCell(a.route[a.leg], a.route[a.leg + 1], a.off, a.w[a.leg]),
           RouteDir(a.route)>>

\* railway_encoding.get_agent_cell(handle): None (NoNode) once removed
get_agent_cell(a) == IF a.done THEN NoNode ELSE AgentNode(a)

\* railway_encoding.previous_node(position): the last graph node and the
\* cells travelled since
previous_node(a) == <<<<a.route[a.leg], RouteDir(a.route)>>, a.off>>

\* railway_encoding.next_node(position): the next graph node and the cells
\* still to travel to it (the node itself and 0 on a graph node)
next_node(a) ==
    IF a.off = 0
    THEN <<<<a.route[a.leg], RouteDir(a.route)>>, 0>>
    ELSE <<<<a.route[a.leg + 1], RouteDir(a.route)>>, a.w[a.leg] - a.off>>


(***************************************************************************)
(* The predictor: the shortest path is the rest of the route from the      *)
(* agent's cell; deviation i leaves the shortest path at its node i by the *)
(* other branch of the passing loop, and is the unreachable path (no node, *)
(* infinite length) where node i has no other branch.                      *)
(***************************************************************************)
Path(lenght, path, edges) == [lenght |-> lenght, path |-> path, edges |-> edges]

RECURSIVE SumTo(_, _)
SumTo(f, n) == IF n < 0 THEN 0 ELSE f[n] + SumTo(f, n - 1)

\* the sum of a list of numbers
Sum(f) == SumTo(f, Size(f) - 1)

ShortestPrediction(a) ==
    LET m == Len(a.route)
        n == m - a.leg + 1
        d == RouteDir(a.route)
        path == [i \in 0..(n - 1) |->
                    IF i = 0 THEN AgentNode(a) ELSE <<a.route[a.leg + i], d>>]
        edges == [i \in 0..(n - 2) |->
                    IF i = 0 THEN a.w[a.leg] - a.off ELSE a.w[a.leg + i]]
    IN  Path(Num(Sum(edges)), path, edges)

Unreachable == Path(PInf, <<>>, <<>>)

\* the nodes from a branch node to the far end of the passing loop by the
\* branch that does not go through `avoid`
OtherBranch(node, avoid) ==
    LET d == node[2]
        far == IF d = 0 THEN 3 ELSE 2
    IN  IF avoid[1] = 4
        THEN [i \in 0..1 |-> IF i = 0 THEN node ELSE <<far, d>>]
        ELSE [i \in 0..2 |->
                IF i = 0 THEN node ELSE IF i = 1 THEN <<4, d>> ELSE <<far, d>>]

DeviationPrediction(a, i) ==
    LET sp == ShortestPrediction(a)
        n == Size(sp.path)
    IN  IF /\ i + 1 < n
           /\ sp.path[i] \in graph_nodes
           /\ Len(successors(sp.path[i])) > 1
        THEN LET path == OtherBranch(sp.path[i], sp.path[i + 1])
                 edges == [k \in 0..(Size(path) - 2) |-> 1]
             IN  Path(Num(Sum(edges)), path, edges)
        ELSE Unreachable

NoPrediction == [present |-> FALSE, shortest |-> Unreachable,
                 deviations |-> <<>>]

\* predictor.get_many()[handle]: None once the agent is at its target
Prediction(a) ==
    IF a.done
    THEN NoPrediction
    ELSE [present |-> TRUE, shortest |-> ShortestPrediction(a),
          deviations |-> [i \in 0..(max_depth - 2) |-> DeviationPrediction(a, i)]]


(***************************************************************************)
(* CustomObservation: reset.                                               *)
(***************************************************************************)
SpeedData(times, remaining) == [times |-> times, remaining |-> remaining]

\* int(np.reciprocal(speed)) for the speed num/den
times_per_cell(speed) == speed[2] \div speed[1]

\* a variant of other_agents that does not leave the agent itself out
other_agents_and_self(handle) == agent_handles

other_agents(handle) == agent_handles \ {handle}

\* _init_agents, for one agent of the environment
init_speed_data(a) == SpeedData(times_per_cell(Speed(a)), 0)

init_last_node(a) ==
    <<previous_node(a)[1], previous_node(a)[2] * times_per_cell(Speed(a))>>

(***************************************************************************)
(* CustomObservation: get_many and _update_shortest.                       *)
(***************************************************************************)
\* np.clip(position_fraction, 0.0, 1.0) of the fraction p/q
clip01(pf) ==
    IF pf[1] < 0 THEN <<0, 1>> ELSE IF pf[1] > pf[2] THEN <<1, 1>> ELSE pf

\* lines 139-144
remaining_turns_in_cell(a) ==
    IF Speed(a)[1] < Speed(a)[2]
    THEN LET pf == clip01(PositionFraction(a))
         IN  ((pf[2] - pf[1]) * Speed(a)[2]) \div (pf[2] * Speed(a)[1])
    ELSE 0

\* np.cumsum([initial_distance] + [weight * times for each edge])
compute_cumulative_weights(times, edges, initial_distance) ==
    [i \in 0..Size(edges) |-> initial_distance + times * SumTo(edges, i - 1)]

\* a row of max_depth entries: the values, then the padding
Padded(values, padding) ==
    [i \in Depth |-> IF i < Size(values) THEN values[i] ELSE padding]

\* lines 145-148
new_speed_data(handle) ==
    IF predictions'[handle].present
    THEN SpeedData(speed_data[handle].times,
                   remaining_turns_in_cell(world[handle]))
    ELSE speed_data[handle]

\* a variant of new_last_node without the test of line 174 on the last
\* position
new_last_node_unguarded(handle, agent_position) ==
    IF agent_position \in graph_nodes
    THEN <<agent_position, 0>>
    ELSE <<last_nodes[handle][1], last_nodes[handle][2] + 1>>

\* lines 172-182: the last visited node with its counter, the last position
new_last_node(handle, agent_position) ==
    IF last_positions[handle] # agent_position
    THEN IF agent_position \in graph_nodes
         THEN <<agent_position, 0>>
         ELSE <<last_nodes[handle][1], last_nodes[handle][2] + 1>>
    ELSE last_nodes[handle]

\* a variant of update_all in which the per-tick arrays are not rebuilt: an
\* agent without a prediction keeps the rows of the previous call
update_all_keeps_rows ==
    /\ predictions' = [h \in agent_handles |-> Prediction(world[h])]
    /\ speed_data' = [h \in agent_handles |-> new_speed_data(h)]
    /\ shortest_paths' = [h \in agent_handles |->
            IF predictions'[h].present
            THEN Padded(predictions'[h].shortest.path, NoNode)
            ELSE shortest_paths[h]]
    /\ shortest_positions' = [h \in agent_handles |->
            [i \in Depth |-> Position(shortest_paths'[h][i])]]
    /\ shortest_cum_weights' = [h \in agent_handles |->
            IF predictions'[h].present
            THEN Padded(compute_cumulative_weights(
                            speed_data'[h].times,
                            predictions'[h].shortest.edges,
                            speed_data'[h].remaining), 0)
            ELSE shortest_cum_weights[h]]
    /\ last_nodes' = [h \in agent_handles |->
            IF predictions'[h].present
            THEN new_last_node(h, predictions'[h].shortest.path[0])
            ELSE last_nodes[h]]
    /\ last_positions' = [h \in agent_handles |->
            IF predictions'[h].present
            THEN predictions'[h].shortest.path[0]
            ELSE last_positions[h]]

\* a variant of update_all in which _update_shortest has run for the first
\* handle only when get is called: the other agents are not yet updated
update_all_first_handle ==
    /\ predictions' = [h \in agent_handles |-> Prediction(world[h])]
    /\ speed_data' = [h \in agent_handles |->
            IF h = 0 THEN new_speed_data(h) ELSE speed_data[h]]
    /\ shortest_paths' = [h \in agent_handles |->
            IF predictions'[h].present /\ h = 0
            THEN Padded(predictions'[h].shortest.path, NoNode)
            ELSE [i \in Depth |-> NoNode]]
    /\ shortest_positions' = [h \in agent_handles |->
            [i \in Depth |-> Position(shortest_paths'[h][i])]]
    /\ shortest_cum_weights' = [h \in agent_handles |->
            IF predictions'[h].present /\ h = 0
            THEN Padded(compute_cumulative_weights(
                            speed_data'[h].times,
                            predictions'[h].shortest.edges,
                            speed_data'[h].remaining), 0)
            ELSE [i \in Depth |-> 0]]
    /\ last_nodes' = [h \in agent_handles |->
            IF predictions'[h].present /\ h = 0
            THEN new_last_node(h, predictions'[h].shortest.path[0])
            ELSE last_nodes[h]]
    /\ last_positions' = [h \in agent_handles |->
            IF predictions'[h].present /\ h = 0
            THEN predictions'[h].shortest.path[0]
            ELSE last_positions[h]]

\* get_many, lines 185-200: the arrays are rebuilt and _update_shortest is
\* run for every agent that has a prediction
update_all ==
    /\ predictions' = [h \in agent_handles |-> Prediction(world[h])]
    /\ speed_data' = [h \in agent_handles |-> new_speed_data(h)]
    /\ shortest_paths' = [h \in agent_handles |->
            IF predictions'[h].present
            THEN Padded(predictions'[h].shortest.path, NoNode)
            ELSE [i \in Depth |-> NoNode]]
    /\ shortest_positions' = [h \in agent_handles |->
            [i \in Depth |-> Position(shortest_paths'[h][i])]]
    /\ shortest_cum_weights' = [h \in agent_handles |->
            IF predictions'[h].present
            THEN Padded(compute_cumulative_weights(
                            speed_data'[h].times,
                            predictions'[h].shortest.edges,
                            speed_data'[h].remaining), 0)
            ELSE [i \in Depth |-> 0]]
    /\ last_nodes' = [h \in agent_handles |->
            IF predictions'[h].present
            THEN new_last_node(h, predictions'[h].shortest.path[0])
            ELSE last_nodes[h]]
    /\ last_positions' = [h \in agent_handles |->
            IF predictions'[h].present
            THEN predictions'[h].shortest.path[0]
            ELSE last_positions[h]]

(***************************************************************************)
(* _get_shortest_packed_positions.                                         *)
(***************************************************************************)
\* a variant of prev_weight that counts the turns since the last node as
\* turns still to come
prev_weight_not_negated(agent) ==
    IF shortest_paths[agent][0] # last_nodes[agent][1]
    THEN last_nodes[agent][2] + speed_data[agent].times
         - speed_data[agent].remaining
    ELSE shortest_cum_weights[agent][0]

prev_weight(agent) ==
    IF shortest_paths[agent][0] # last_nodes[agent][1]
    THEN -(last_nodes[agent][2] + speed_data[agent].times
           - speed_data[agent].remaining)
    ELSE shortest_cum_weights[agent][0]

packed_positions ==
    [agent \in agent_handles |->
        [i \in Depth |-> IF i = 0 THEN Position(last_nodes[agent][1])
                         ELSE shortest_positions[agent][i]]]

packed_weights ==
    [agent \in agent_handles |->
        [i \in Depth |-> IF i = 0 THEN prev_weight(agent)
                         ELSE shortest_cum_weights[agent][i]]]


(***************************************************************************)
(* find_deadlocks.                                                         *)
(***************************************************************************)
\* utils.reciprocal_sum(a, b) = 1 / (1/a + 1/b), as the fraction <<n, d>>
reciprocal_sum(a, b) == <<a * b, a + b>>

\* lines 508-511
from_dest_to_source(positions, j, agent, i) ==
    /\ positions[j] = packed_positions[agent][i + 1]
    /\ positions[j + 1] = packed_positions[agent][i]

\* a variant of intersecting_turns in which windows that only touch do not
\* intersect
intersecting_turns_strict(cum_weights, j, agent, i) ==
    /\ cum_weights[j] < packed_weights[agent][i + 1]
    /\ cum_weights[j + 1] > packed_weights[agent][i]

\* lines 512-515
intersecting_turns(cum_weights, j, agent, i) ==
    /\ ~(cum_weights[j] > packed_weights[agent][i + 1])
    /\ ~(cum_weights[j + 1] < packed_weights[agent][i])

\* line 504: the pair i, i + 1 of the other agent's row is not padding
informative(agent, i) ==
    /\ packed_positions[agent][i] # -1
    /\ packed_positions[agent][i + 1] # -1

\* the pairs <<i, j>> at which line 516 finds a deadlock
deadlock_pairs(positions, cum_weights, agent) ==
    { p \in (0..(max_depth - 2)) \X (0..(Size(positions) - 2)) :
        /\ informative(agent, p[1])
        /\ from_dest_to_source(positions, p[2], agent, p[1])
        /\ intersecting_turns(cum_weights, p[2], agent, p[1]) }

\* the loops of lines 502-578 stop at the first pair: the least i, then the
\* least j
first_deadlock(positions, cum_weights, agent) ==
    LET pairs == deadlock_pairs(positions, cum_weights, agent)
    IN  CHOOSE p \in pairs :
            \A q \in pairs : p[1] < q[1] \/ (p[1] = q[1] /\ p[2] <= q[2])

\* lines 518-553: space, as the fraction <<n, d>>
space(handle, cum_weights, j, agent, i) ==
    LET th == speed_data[handle].times
        ta == speed_data[agent].times
        cw == cum_weights[j]
        pw == packed_weights[agent][i]
        width == (cum_weights[j + 1] - cw) * ta
    IN  IF cw < 0 /\ pw < 0
        THEN <<width + cw * ta + pw * th, th * ta>>
        ELSE IF cw > pw
        THEN <<width - Abs(cw - Abs(pw)) * th, th * ta>>
        ELSE IF pw > cw
        THEN <<width + Abs(pw - Abs(cw)) * th, th * ta>>
        ELSE <<width, th * ta>>

\* lines 557-563
crash_turn(handle, cum_weights, j, agent, i) ==
    LET sp == space(handle, cum_weights, j, agent, i)
        rs == reciprocal_sum(speed_data[agent].times, speed_data[handle].times)
    IN  Max2(cum_weights[j], 0) + CeilDiv(sp[1] * rs[2], sp[2] * rs[1])

\* variants of deadlock_step: the count raised only after the source index,
\* once for every pair found (no break), only at the source index
deadlock_step_after_source(acc, handle, positions, cum_weights, agent) ==
    IF deadlock_pairs(positions, cum_weights, agent) = {}
    THEN acc
    ELSE LET j == first_deadlock(positions, cum_weights, agent)[2]
         IN  [acc EXCEPT !.deadlocks =
                [k \in Depth |->
                    IF j < k /\ k < Size(positions)
                    THEN acc.deadlocks[k] + 1 ELSE acc.deadlocks[k]]]

deadlock_step_every_pair(acc, handle, positions, cum_weights, agent) ==
    LET pairs == deadlock_pairs(positions, cum_weights, agent)
    IN  [acc EXCEPT !.deadlocks =
            [k \in Depth |->
                acc.deadlocks[k]
                + Cardinality({p \in pairs : p[2] <= k /\ k < Size(positions)})]]

deadlock_step_source_only(acc, handle, positions, cum_weights, agent) ==
    IF deadlock_pairs(positions, cum_weights, agent) = {}
    THEN acc
    ELSE LET j == first_deadlock(positions, cum_weights, agent)[2]
         IN  [acc EXCEPT !.deadlocks =
                [k \in Depth |->
                    IF k = j THEN acc.deadlocks[k] + 1 ELSE acc.deadlocks[k]]]

\* the body of the loop of line 498 for one other agent
deadlock_step(acc, handle, positions, cum_weights, agent) ==
    IF deadlock_pairs(positions, cum_weights, agent) = {}
    THEN acc
    ELSE LET p == first_deadlock(positions, cum_weights, agent)
             j == p[2]
             ct == Num(crash_turn(handle, cum_weights, j, agent, p[1]))
         IN  [deadlocks |->
                [k \in Depth |->
                    IF j <= k /\ k < Size(positions)
                    THEN acc.deadlocks[k] + 1 ELSE acc.deadlocks[k]],
              crash_turns |->
                [k \in Depth |->
                    IF k = j /\ Lt(ct, acc.crash_turns[k])
                    THEN ct ELSE acc.crash_turns[k]]]

\* the least handle of a non-empty set: the loops over other_agents visit
\* the handles in increasing order
First(S) == CHOOSE x \in S : \A y \in S : x <= y

RECURSIVE deadlock_loop(_, _, _, _, _)
deadlock_loop(acc, handle, positions, cum_weights, agents) ==
    IF agents = {}
    THEN acc
    ELSE deadlock_loop(
            deadlock_step(acc, handle, positions, cum_weights, First(agents)),
            handle, positions, cum_weights, agents \ {First(agents)})

find_deadlocks(handle, positions, cum_weights, prev_deadlocks) ==
    deadlock_loop([deadlocks |-> [k \in Depth |-> prev_deadlocks],
                   crash_turns |-> [k \in Depth |-> PInf]],
                  handle, positions, cum_weights, other_agents(handle))


(***************************************************************************)
(* agents_in_path.                                                         *)
(***************************************************************************)
\* utils.get_index(path, node): the first index of node in path, or None
\* (-1)
get_index(path, node) ==
    IF \E k \in DOMAIN path : path[k] = node
    THEN CHOOSE k \in DOMAIN path :
            path[k] = node /\ \A l \in DOMAIN path : path[l] = node => k <= l
    ELSE -1

\* lines 337-339: the first node variant at the other agent's next node
\* that is in the path, as an index of get_nodes, or 0 when there is none
matched_variant(path, node) ==
    LET nodes == get_nodes(Position(node))
    IN  IF \E v \in DOMAIN nodes : get_index(path, nodes[v]) # -1
        THEN CHOOSE v \in DOMAIN nodes :
                /\ get_index(path, nodes[v]) # -1
                /\ \A u \in DOMAIN nodes :
                        get_index(path, nodes[u]) # -1 => v <= u
        ELSE 0

\* a variant of direction_of without the test for the last node of the path
direction_of_ignores_path_end(path, index, other_node, node) ==
    LET next_nodes == successors(node)
        different_node == other_node # node
        more_than_one_choice == Len(next_nodes) > 1
        last_node_in_path == Size(path) <= index + 1
        different_one_choice ==
            /\ ~last_node_in_path
            /\ Len(next_nodes) > 0
            /\ next_nodes[1] # path[index + 1]
    IN  IF different_node /\ (more_than_one_choice \/ different_one_choice)
        THEN 1 ELSE 0

\* lines 353-365: 1 for the other direction, 0 for the same direction
direction_of(path, index, other_node, node) ==
    LET next_nodes == successors(node)
        different_node == other_node # node
        more_than_one_choice == Len(next_nodes) > 1
        last_node_in_path == Size(path) <= index + 1
        different_one_choice ==
            /\ ~last_node_in_path
            /\ Len(next_nodes) > 0
            /\ next_nodes[1] # path[index + 1]
    IN  IF different_node /\ (more_than_one_choice \/ last_node_in_path
                              \/ different_one_choice)
        THEN 1 ELSE 0

\* lines 341-350 and 364, 372: the distance to the other agent
agent_distance(handle, cum_weights, index, agent, next_node_distance, direction) ==
    LET sd == speed_data[handle]
        od == speed_data[agent]
        base == IF cum_weights[index] < sd.times
                THEN sd.remaining - sd.times ELSE cum_weights[index]
        turns == Fin(Abs(next_node_distance * od.times - od.remaining) * sd.times,
                     od.times)
    IN  IF direction = 1
        THEN AddFin(Num(base), turns)
        ELSE SubFin(Num(base), turns)

\* a variant of replaces that keeps the distance of the first agent matched
\* at an index
replaces_first_kept(stored, distance) ==
    stored = PInf

\* a variant of replaces in which a negative distance replaces a stored
\* non-negative one, and a non-negative one does not replace a negative one
replaces_negative_wins(stored, distance) ==
    \/ stored = PInf
    \/ Le(Num(0), distance) /\ Lt(distance, stored)
    \/ Le(distance, Num(0)) /\ Lt(stored, distance)
    \/ Lt(distance, Num(0)) /\ Le(Num(0), stored)

\* lines 373-376
replaces(stored, distance) ==
    \/ stored = PInf
    \/ Le(Num(0), distance) /\ Lt(distance, stored)
    \/ Le(distance, Num(0)) /\ Lt(stored, distance)
    \/ Le(Num(0), distance) /\ Lt(stored, Num(0))

\* a variant of agents_step that raises the counts at the matched index
\* only, not at the later nodes of the path
agents_step_index_only(acc, handle, path, cum_weights, agent) ==
    LET position == get_agent_cell(world[agent])
        node == next_node(world[agent])[1]
        next_node_distance == next_node(world[agent])[2]
        v == matched_variant(path, node)
    IN  IF position = NoNode \/ v = 0
        THEN acc
        ELSE LET other_node == get_nodes(Position(node))[v]
                 index == get_index(path, other_node)
                 direction == direction_of(path, index, other_node, node)
                 distance == agent_distance(handle, cum_weights, index, agent,
                                            next_node_distance, direction)
                 malfunction == world[agent].malfunction
             IN  [num_agents |->
                    [k \in Depth |-> [c \in 0..3 |->
                        IF /\ index = k
                           /\ \/ c = direction
                              \/ c = direction + 2 /\ malfunction > 0
                        THEN acc.num_agents[k][c] + 1
                        ELSE acc.num_agents[k][c]]],
                  distances |->
                    [k \in Depth |-> [c \in 0..1 |->
                        IF /\ k = index
                           /\ c = direction
                           /\ replaces(acc.distances[k][c], distance)
                        THEN distance ELSE acc.distances[k][c]]],
                  malfunctions |->
                    [k \in Depth |-> [c \in 0..1 |->
                        IF /\ k = index
                           /\ c = direction
                           /\ acc.malfunctions[k][c] < malfunction
                        THEN malfunction ELSE acc.malfunctions[k][c]]]]

\* a variant of agents_step that counts every matched agent as
\* malfunctioning
agents_step_all_malfunctioning(acc, handle, path, cum_weights, agent) ==
    LET position == get_agent_cell(world[agent])
        node == next_node(world[agent])[1]
        next_node_distance == next_node(world[agent])[2]
        v == matched_variant(path, node)
    IN  IF position = NoNode \/ v = 0
        THEN acc
        ELSE LET other_node == get_nodes(Position(node))[v]
                 index == get_index(path, other_node)
                 direction == direction_of(path, index, other_node, node)
                 distance == agent_distance(handle, cum_weights, index, agent,
                                            next_node_distance, direction)
                 malfunction == world[agent].malfunction
             IN  [num_agents |->
                    [k \in Depth |-> [c \in 0..3 |->
                        IF /\ index <= k
                           /\ k < Size(path)
                           /\ \/ c = direction
                              \/ c = direction + 2
                        THEN acc.num_agents[k][c] + 1
                        ELSE acc.num_agents[k][c]]],
                  distances |->
                    [k \in Depth |-> [c \in 0..1 |->
                        IF /\ k = index
                           /\ c = direction
                           /\ replaces(acc.distances[k][c], distance)
                        THEN distance ELSE acc.distances[k][c]]],
                  malfunctions |->
                    [k \in Depth |-> [c \in 0..1 |->
                        IF /\ k = index
                           /\ c = direction
                           /\ acc.malfunctions[k][c] < malfunction
                        THEN malfunction ELSE acc.malfunctions[k][c]]]]

\* a variant of agents_step without the test of line 325 for an agent
\* that has no position
agents_step_counts_finished(acc, handle, path, cum_weights, agent) ==
    LET position == get_agent_cell(world[agent])
        node == next_node(world[agent])[1]
        next_node_distance == next_node(world[agent])[2]
        v == matched_variant(path, node)
    IN  IF v = 0
        THEN acc
        ELSE LET other_node == get_nodes(Position(node))[v]
                 index == get_index(path, other_node)
                 direction == direction_of(path, index, other_node, node)
                 distance == agent_distance(handle, cum_weights, index, agent,
                                            next_node_distance, direction)
                 malfunction == world[agent].malfunction
             IN  [num_agents |->
                    [k \in Depth |-> [c \in 0..3 |->
                        IF /\ index <= k
                           /\ k < Size(path)
                           /\ \/ c = direction
                              \/ c = direction + 2 /\ malfunction > 0
                        THEN acc.num_agents[k][c] + 1
                        ELSE acc.num_agents[k][c]]],
                  distances |->
                    [k \in Depth |-> [c \in 0..1 |->
                        IF /\ k = index
                           /\ c = direction
                           /\ replaces(acc.distances[k][c], distance)
                        THEN distance ELSE acc.distances[k][c]]],
                  malfunctions |->
                    [k \in Depth |-> [c \in 0..1 |->
                        IF /\ k = index
                           /\ c = direction
                           /\ acc.malfunctions[k][c] < malfunction
                        THEN malfunction ELSE acc.malfunctions[k][c]]]]

\* the body of the loop of line 322 for one other agent
agents_step(acc, handle, path, cum_weights, agent) ==
    LET position == get_agent_cell(world[agent])
        node == next_node(world[agent])[1]
        next_node_distance == next_node(world[agent])[2]
        v == matched_variant(path, node)
    IN  IF position = NoNode \/ v = 0
        THEN acc
        ELSE LET other_node == get_nodes(Position(node))[v]
                 index == get_index(path, other_node)
                 direction == direction_of(path, index, other_node, node)
                 distance == agent_distance(handle, cum_weights, index, agent,
                                            next_node_distance, direction)
                 malfunction == world[agent].malfunction
             IN  [num_agents |->
                    [k \in Depth |-> [c \in 0..3 |->
                        IF /\ index <= k
                           /\ k < Size(path)
                           /\ \/ c = direction
                              \/ c = direction + 2 /\ malfunction > 0
                        THEN acc.num_agents[k][c] + 1
                        ELSE acc.num_agents[k][c]]],
                  distances |->
                    [k \in Depth |-> [c \in 0..1 |->
                        IF /\ k = index
                           /\ c = direction
                           /\ replaces(acc.distances[k][c], distance)
                        THEN distance ELSE acc.distances[k][c]]],
                  malfunctions |->
                    [k \in Depth |-> [c \in 0..1 |->
                        IF /\ k = index
                           /\ c = direction
                           /\ acc.malfunctions[k][c] < malfunction
                        THEN malfunction ELSE acc.malfunctions[k][c]]]]

RECURSIVE agents_loop(_, _, _, _, _)
agents_loop(acc, handle, path, cum_weights, agents) ==
    IF agents = {}
    THEN acc
    ELSE agents_loop(
            agents_step(acc, handle, path, cum_weights, First(agents)),
            handle, path, cum_weights, agents \ {First(agents)})

\* prev_num_agents is the row of four counts the accumulator starts from
\* (zeros for None)
agents_in_path(handle, path, cum_weights, prev_num_agents) ==
    agents_loop([num_agents |-> [k \in Depth |-> prev_num_agents],
                 distances |-> [k \in Depth |-> [c \in 0..1 |-> PInf]],
                 malfunctions |-> [k \in Depth |-> [c \in 0..1 |-> 0]]],
                handle, path, cum_weights, other_agents(handle))

(***************************************************************************)
(* distance_from_target and common_nodes.                                  *)
(***************************************************************************)
\* a variant of distance_from_target that leaves the turns to the root of
\* the deviation out of the distance at the root
distance_from_target_from_root(handle, lenght, path, cum_weights, turns_to_deviation) ==
    IF lenght = PInf
    THEN [k \in Depth |-> PInf]
    ELSE LET max_distance == lenght.n * speed_data[handle].times
         IN  [k \in Depth |->
                Num((IF k < Size(path) THEN max_distance ELSE 0)
                    - cum_weights[k])]

distance_from_target(handle, lenght, path, cum_weights, turns_to_deviation) ==
    IF lenght = PInf
    THEN [k \in Depth |-> PInf]
    ELSE LET max_distance ==
                lenght.n * speed_data[handle].times + turns_to_deviation
         IN  [k \in Depth |->
                Num((IF k < Size(path) THEN max_distance ELSE 0)
                    - cum_weights[k])]

\* a variant of common_nodes that reads the packed positions of the other
\* agents
common_nodes_packed(handle, positions) ==
    [k \in Depth |->
        IF k < Size(positions)
        THEN Cardinality({row \in other_agents(handle) :
                \E c \in Depth : packed_positions[row][c] = positions[k]})
        ELSE 0]

common_nodes(handle, positions) ==
    [k \in Depth |->
        IF k < Size(positions)
        THEN Cardinality({row \in other_agents(handle) :
                \E c \in Depth : shortest_positions[row][c] = positions[k]})
        ELSE 0]


(***************************************************************************)
(* _fill_path_values.                                                      *)
(***************************************************************************)
\* lines 252-267: the cumulative weights of the path, its positions and
\* the weights find_deadlocks reads
path_weights(handle, prediction, turns_to_deviation) ==
    IF turns_to_deviation = 0
    THEN shortest_cum_weights[handle]
    ELSE Padded(compute_cumulative_weights(speed_data[handle].times,
                    prediction.edges, turns_to_deviation), 0)

path_positions(handle, prediction, turns_to_deviation) ==
    IF turns_to_deviation = 0
    THEN [k \in 0..(Size(prediction.path) - 1) |-> packed_positions[handle][k]]
    ELSE [k \in DOMAIN prediction.path |-> Position(prediction.path[k])]

positions_weights(handle, prediction, turns_to_deviation) ==
    IF turns_to_deviation = 0
    THEN packed_weights[handle]
    ELSE path_weights(handle, prediction, turns_to_deviation)

\* lines 270-280: the features of a path, before they are stacked
path_features(handle, prediction, turns_to_deviation, prev_deadlocks, prev_num_agents) ==
    LET pw == path_weights(handle, prediction, turns_to_deviation)
        positions == path_positions(handle, prediction, turns_to_deviation)
        aip == agents_in_path(handle, prediction.path, pw, prev_num_agents)
        fd == find_deadlocks(handle, positions,
                  positions_weights(handle, prediction, turns_to_deviation),
                  prev_deadlocks)
    IN  [num_agents |-> aip.num_agents,
         agent_distances |-> aip.distances,
         malfunctions |-> aip.malfunctions,
         target_distances |-> distance_from_target(handle, prediction.lenght,
                                  prediction.path, pw, turns_to_deviation),
         c_nodes |-> common_nodes(handle, positions),
         deadlocks |-> fd.deadlocks,
         deadlock_distances |-> fd.crash_turns]

\* lines 283-286: the feature matrix, max_depth rows of FEATURES values
feature_matrix(pf) ==
    [k \in Depth |-> [f \in 0..(FEATURES - 1) |->
        CASE f <= 3 -> Num(pf.num_agents[k][f])
          [] f <= 5 -> pf.agent_distances[k][f - 4]
          [] f <= 7 -> Num(pf.malfunctions[k][f - 6])
          [] f = 8 -> pf.target_distances[k]
          [] f = 9 -> Num(pf.c_nodes[k])
          [] f = 10 -> Num(pf.deadlocks[k])
          [] OTHER -> pf.deadlock_distances[k]]]

(***************************************************************************)
(* get, lines 205-227: the tensor before normalize.                        *)
(***************************************************************************)
shortest_feats(handle) ==
    path_features(handle, predictions[handle].shortest, 0, 0,
                  [c \in 0..3 |-> 0])

\* a variant of prev_deadlocks that reads the shortest row at the branch
\* index itself
prev_deadlocks_at_branch(handle, i) == shortest_feats(handle).deadlocks[i]

\* lines 217-221: what deviation i starts its counts from
prev_deadlocks(handle, i) ==
    IF i >= 1 THEN shortest_feats(handle).deadlocks[i - 1] ELSE 0

prev_num_agents_values(handle, i) ==
    IF i >= 1 THEN shortest_feats(handle).num_agents[i - 1]
    ELSE [c \in 0..3 |-> 0]

dev_feats(handle, i) ==
    path_features(handle, predictions[handle].deviations[i],
                  shortest_cum_weights[handle][i],
                  prev_deadlocks(handle, i),
                  prev_num_agents_values(handle, i))

\* a variant of empty_observation filled with zeros
empty_observation_zeros ==
    [r \in Depth |-> [k \in Depth |-> [f \in 0..(FEATURES - 1) |-> Num(0)]]]

empty_observation ==
    [r \in Depth |-> [k \in Depth |-> [f \in 0..(FEATURES - 1) |-> NInf]]]

raw_observation(handle) ==
    IF predictions[handle].present
    THEN [r \in Depth |->
            IF r = 0
            THEN feature_matrix(shortest_feats(handle))
            ELSE IF r - 1 \in DOMAIN predictions[handle].deviations
            THEN feature_matrix(dev_feats(handle, r - 1))
            ELSE empty_observation[r]]
    ELSE empty_observation

(***************************************************************************)
(* normalize.                                                              *)
(***************************************************************************)
Cells == Depth \X Depth

\* the values of a group of features of the tensor
group_values(observation, feats) ==
    {observation[c[1]][c[2]][f] : c \in Cells, f \in feats}

finite_values(values) == {v \in values : IsFin(v)}

min_value(values) == CHOOSE v \in values : \A w \in values : Le(v, w)

max_value(values) == CHOOSE v \in values : \A w \in values : Le(w, v)

\* utils.min_max_scaling of one value v for the window [mn, mx]: a value
\* under the window becomes `under`, one over it `over`, an infinite one
\* stays; `flat` is the result on a window of width 0
min_max_scaling(v, lower, upper, under, over, mn, mx, flat) ==
    CASE ~IsFin(v) -> v
      [] Lt(v, mn) -> Num(under)
      [] Lt(mx, v) -> Num(over)
      [] mn = mx -> flat
      [] OTHER ->
            LET width == SubFin(mx, mn)
                part == SubFin(v, mn)
            IN  Fin(lower * width.n * part.d + (upper - lower) * part.n * width.d,
                    width.n * part.d)

\* lines 597-601
remaining_agents ==
    Cardinality(agent_handles) - Cardinality({i \in agent_handles : world[i].done})

\* line 608
max_malfunctions == MaxMalfunction

\* the features that are scaled together
group_of(f) ==
    CASE f <= 3 -> 0..3
      [] f <= 5 -> 4..5
      [] f <= 7 -> 6..7
      [] OTHER -> {f}

\* lines 602-635: the window of each feature, <<has a window, min, max>>:
\* the known bounds, or the least and the greatest finite value of its group
window(observation, f) ==
    CASE f <= 3 \/ f = 10 -> <<TRUE, Num(0), Num(remaining_agents)>>
      [] f = 6 \/ f = 7 -> <<TRUE, Num(0), Num(max_malfunctions)>>
      [] f = 9 -> <<TRUE, Num(0), Num(max_depth)>>
      [] OTHER ->
            LET finite == finite_values(group_values(observation, group_of(f)))
            IN  IF finite = {}
                THEN <<FALSE, Num(0), Num(0)>>
                ELSE <<TRUE, min_value(finite), max_value(finite)>>

scaled(v, win, flat) ==
    IF win[1]
    THEN min_max_scaling(v, LOWER, UPPER, UNDER, OVER, win[2], win[3], flat)
    ELSE v

\* lines 647-648
sanity(v) == IF v = NInf THEN Num(UNDER) ELSE IF v = PInf THEN Num(OVER) ELSE v

\* the tensor normalize has built when it reaches its assertion
normalized(observation, flat) ==
    LET win == <<window(observation, 0), window(observation, 1),
                 window(observation, 2), window(observation, 3),
                 window(observation, 4), window(observation, 5),
                 window(observation, 6), window(observation, 7),
                 window(observation, 8), window(observation, 9),
                 window(observation, 10), window(observation, 11)>>
    IN  [r \in Depth |-> [k \in Depth |-> [f \in 0..(FEATURES - 1) |->
            sanity(scaled(observation[r][k][f], win[f + 1], flat))]]]

\* lines 651-654
in_range(v) == Le(Num(UNDER), v) /\ Le(v, Num(OVER))

\* a variant of range_assertion that accepts every tensor
range_assertion_skipped(observation) == TRUE

range_assertion(observation) ==
    \A c \in Cells : \A f \in 0..(FEATURES - 1) :
        in_range(observation[c[1]][c[2]][f])


(***************************************************************************)
(* The environment's step: a malfunctioning agent waits, any other agent   *)
(* that is not done adds its speed to its position fraction and enters the *)
(* next cell once the fraction has reached 1; it is done at the last node  *)
(* of its route.                                                           *)
(***************************************************************************)
Advance(a) ==
    LET times == CeilDiv(a.speed[2], a.speed[1]) IN
    CASE a.done -> a
      [] a.malfunction > 0 -> [a EXCEPT !.malfunction = a.malfunction - 1]
      [] a.sub + 1 < times -> [a EXCEPT !.sub = a.sub + 1]
      [] a.off + 1 < a.w[a.leg] -> [a EXCEPT !.sub = 0, !.off = a.off + 1]
      [] a.leg + 1 < Len(a.route) ->
            [a EXCEPT !.sub = 0, !.off = 0, !.leg = a.leg + 1]
      [] OTHER -> [a EXCEPT !.sub = 0, !.off = 0, !.done = TRUE]

(***************************************************************************)
(* The state machine.                                                      *)
(***************************************************************************)
\* no episode loop is running
NoLoop ==
    /\ start_lists = <<>>
    /\ agents_with_same_start = <<>>
    /\ step = 0
    /\ action_required = <<>>
    /\ action_dict = <<>>
    /\ pc = "idle"

\* what a call has given: nothing yet, an exception, an array
NotCalled == [state |-> "none", value |-> <<>>]

Raised(exception) == [state |-> exception, value |-> <<>>]

Result(array) == [state |-> "returned", value |-> array]

\* neither masked_max nor masked_argmax has been called
NoPolicyCall ==
    /\ vec = <<>>
    /\ mask = <<>>
    /\ max_arr = NotCalled
    /\ argmax_arr = NotCalled

\* the state after reset(): _init_agents has run, nothing is observed yet
Init ==
    /\ \E n \in 1..MaxAgents :
        /\ agent_handles = 0..(n - 1)
        /\ world \in [0..(n - 1) -> Starts]
    /\ tick = 0
    /\ speed_data = [h \in agent_handles |-> init_speed_data(world[h])]
    /\ last_nodes = [h \in agent_handles |-> init_last_node(world[h])]
    /\ last_positions = [h \in agent_handles |-> get_agent_cell(world[h])]
    /\ predictions = [h \in agent_handles |-> NoPrediction]
    /\ shortest_paths = [h \in agent_handles |-> [i \in Depth |-> NoNode]]
    /\ shortest_positions = [h \in agent_handles |-> [i \in Depth |-> -1]]
    /\ shortest_cum_weights = [h \in agent_handles |-> [i \in Depth |-> 0]]
    /\ observations = [h \in agent_handles |-> <<>>]
    /\ raw = [h \in agent_handles |-> <<>>]
    /\ normalized_observation = <<>>
    /\ pending = {}
    /\ calls = 0
    /\ failed = {}
    /\ NoLoop
    /\ NoPolicyCall

\* get_many up to the call of get for the first handle
GetMany ==
    /\ pending = {}
    /\ failed = {}
    /\ calls < MaxCalls
    /\ update_all
    /\ pending' = agent_handles
    /\ calls' = calls + 1
    /\ UNCHANGED <<world, tick, agent_handles, observations, raw,
                   normalized_observation, failed, loop_vars, policy_vars>>

\* a variant of Get in which _get_shortest_packed_positions writes the
\* packed weights into the shortest cumulative weights instead of a copy
Get_packs_in_place(handle) ==
    /\ handle \in pending
    /\ failed = {}
    /\ pending' = pending \ {handle}
    /\ raw' = [raw EXCEPT ![handle] = raw_observation(handle)]
    /\ \E flat \in {NaN, Num(LOWER)} :
        normalized_observation' = normalized(raw'[handle], flat)
    /\ IF range_assertion(normalized_observation')
       THEN /\ observations' =
                    [observations EXCEPT ![handle] = normalized_observation']
            /\ failed' = failed
       ELSE /\ observations' = [observations EXCEPT ![handle] = raw'[handle]]
            /\ failed' = {handle}
    /\ shortest_cum_weights' = packed_weights
    /\ UNCHANGED <<env_vars, agent_vars, predictions, shortest_paths,
                   shortest_positions, calls, loop_vars, policy_vars>>

\* get(handle): the tensor is built, normalized and stored; when the range
\* assertion fails the call raises and the raw tensor stays in observations
Get(handle) ==
    /\ handle \in pending
    /\ failed = {}
    /\ pending' = pending \ {handle}
    /\ raw' = [raw EXCEPT ![handle] = raw_observation(handle)]
    /\ \E flat \in {NaN, Num(LOWER)} :
        normalized_observation' = normalized(raw'[handle], flat)
    /\ IF range_assertion(normalized_observation')
       THEN /\ observations' =
                    [observations EXCEPT ![handle] = normalized_observation']
            /\ failed' = failed
       ELSE /\ observations' = [observations EXCEPT ![handle] = raw'[handle]]
            /\ failed' = {handle}
    /\ UNCHANGED <<env_vars, agent_vars, tick_vars, calls, loop_vars,
                   policy_vars>>

\* env.step(): every agent moves on
EnvStep ==
    /\ pending = {}
    /\ failed = {}
    /\ calls >= 1
    /\ tick < MaxTicks
    /\ world' = [h \in agent_handles |-> Advance(world[h])]
    /\ tick' = tick + 1
    /\ calls' = 0
    /\ UNCHANGED <<agent_vars, tick_vars, observations, raw,
                   normalized_observation, pending, failed, loop_vars,
                   policy_vars>>

Next ==
    \/ GetMany
    \/ \E handle \in agent_handles : Get(handle)
    \/ EnvStep

Spec == Init /\ [][Next]_vars

(***************************************************************************)
(* Episodes of three agents, for the scans that meet two other agents at   *)
(* one node: a slow agent on 2 -> 3, agents that come towards it from 3    *)
(* over a short or a long edge, and agents that follow it from 1.          *)
(***************************************************************************)
StartsThree ==
    { Start(<<2, 3>>, 1, <<1, 2>>, 0),
      Start(<<3, 2, 1>>, 1, <<1, 1>>, 0),
      Start(<<3, 2>>, MaxWeight, <<1, 1>>, 0),
      Start(<<1, 2, 3>>, MaxWeight, <<1, 1>>, 0),
      Start(<<1, 2, 3>>, 1, <<1, 1>>, 1) }

InitThree ==
    /\ agent_handles = 0..2
    /\ world \in [0..2 -> StartsThree]
    /\ tick = 0
    /\ speed_data = [h \in agent_handles |-> init_speed_data(world[h])]
    /\ last_nodes = [h \in agent_handles |-> init_last_node(world[h])]
    /\ last_positions = [h \in agent_handles |-> get_agent_cell(world[h])]
    /\ predictions = [h \in agent_handles |-> NoPrediction]
    /\ shortest_paths = [h \in agent_handles |-> [i \in Depth |-> NoNode]]
    /\ shortest_positions = [h \in agent_handles |-> [i \in Depth |-> -1]]
    /\ shortest_cum_weights = [h \in agent_handles |-> [i \in Depth |-> 0]]
    /\ observations = [h \in agent_handles |-> <<>>]
    /\ raw = [h \in agent_handles |-> <<>>]
    /\ normalized_observation = <<>>
    /\ pending = {}
    /\ calls = 0
    /\ failed = {}
    /\ NoLoop
    /\ NoPolicyCall

SpecThree == InitThree /\ [][Next]_vars


(***************************************************************************)
(* Properties of the tensors.                                              *)
(*  Built(h): get(h) has run in the current get_many call, so raw[h] is    *)
(*  the tensor it built from the current predictions; Returned(h): its     *)
(*  normalize returned.                                                    *)
(***************************************************************************)
Features == 0..(FEATURES - 1)

CountFeatures == {0, 1, 2, 3, 6, 7, 10}

DistanceFeatures == {4, 5, 11}

SeededFeatures == {0, 1, 2, 3, 10}

Built(h) == calls >= 1 /\ h \in agent_handles /\ h \notin pending

Returned(h) == Built(h) /\ h \notin failed

Predicted(h) == Built(h) /\ predictions[h].present

\* the path of row r of the tensor and its number of nodes
RowPrediction(h, r) ==
    IF r = 0 THEN predictions[h].shortest ELSE predictions[h].deviations[r - 1]

RowLength(h, r) == Size(RowPrediction(h, r).path)

\* the entries of the tensor that belong to no node of a path
Unpopulated(h) ==
    IF predictions[h].present
    THEN {c \in Cells : c[2] >= RowLength(h, c[1])}
    ELSE Cells

InRangeNumber(v) == IsFin(v) /\ Le(Num(UNDER), v) /\ Le(v, Num(OVER))

\* what find_deadlocks reads for the shortest row of h, and the pairs it
\* finds against the packed row of g
ShortestPositions(h) == path_positions(h, predictions[h].shortest, 0)

ShortestPairs(h, g) == deadlock_pairs(ShortestPositions(h), packed_weights[h], g)

NonDecreasing(w, n) == \A k \in Depth : (k + 1 < n) => w[k] <= w[k + 1]

\* C1: whenever normalize returns a tensor, every entry of it is a finite
\* number in [UNDER, OVER]; the range assertion fails only on a tensor that
\* has an entry outside that range (or a NaN), and such a tensor is not
\* returned.
C1_ReturnedTensorInRange ==
    /\ \A h \in agent_handles :
        (observations[h] # <<>> /\ h \notin failed) =>
            \A c \in Cells, f \in Features :
                InRangeNumber(observations[h][c[1]][c[2]][f])
    /\ failed # {} =>
            \E c \in Cells, f \in Features :
                ~InRangeNumber(normalized_observation[c[1]][c[2]][f])

\* one agent's tensor was returned with an infinite entry rewritten to
\* OVER, and the assertion has failed for the other agent
C1_Witness ==
    \E h, g \in agent_handles :
        /\ h # g
        /\ g \in failed
        /\ Returned(h)
        /\ \E c \in Cells :
            /\ raw[h][c[1]][c[2]][4] = PInf
            /\ observations[h][c[1]][c[2]][4] = Num(OVER)

\* C2 (as stated): every entry outside the nodes of the supplied paths
\* holds -inf before normalization and exactly UNDER or OVER after it.
C2_UnpopulatedAreSentinels ==
    \A h \in agent_handles : Built(h) =>
        \A c \in Unpopulated(h), f \in Features :
            /\ raw[h][c[1]][c[2]][f] = NInf
            /\ Returned(h) =>
                    observations[h][c[1]][c[2]][f] \in {Num(UNDER), Num(OVER)}

\* C2 (amended): the tensor of an agent without a prediction holds -inf in
\* every entry before normalization and UNDER after it; in the tensor of
\* an agent with a prediction no entry is -inf: outside the nodes of the
\* paths the count, malfunction and deadlock channels hold finite values
\* and the conflict and deadlock distances +inf, which becomes OVER.
C2_OnlyMissingPredictionIsMinusInf ==
    \A h \in agent_handles : Built(h) =>
        IF predictions[h].present
        THEN \A c \in Unpopulated(h) :
                /\ \A f \in Features : raw[h][c[1]][c[2]][f] # NInf
                /\ \A f \in CountFeatures \cup {9} : IsFin(raw[h][c[1]][c[2]][f])
                /\ \A f \in DistanceFeatures :
                    /\ raw[h][c[1]][c[2]][f] = PInf
                    /\ Returned(h) => observations[h][c[1]][c[2]][f] = Num(OVER)
        ELSE \A c \in Cells, f \in Features :
                /\ raw[h][c[1]][c[2]][f] = NInf
                /\ Returned(h) => observations[h][c[1]][c[2]][f] = Num(UNDER)

\* an agent at its target has an all-UNDER tensor while the other agent's
\* tensor has a padded column that holds 0 and is normalized to LOWER
C2_Witness ==
    \E h, g \in agent_handles :
        /\ Returned(h) /\ Returned(g)
        /\ ~predictions[g].present
        /\ observations[g][0][0][0] = Num(UNDER)
        /\ predictions[h].present
        /\ \E c \in Unpopulated(h) :
            /\ raw[h][c[1]][c[2]][0] = Num(0)
            /\ observations[h][c[1]][c[2]][0] = Num(LOWER)

\* C3 (as stated): for two agents with a prediction, every edge of A's
\* shortest path that B's packed path traverses in the opposite direction
\* with overlapping tick windows has a positive deadlock count at its
\* source index in A's row and in B's row.
C3_EveryReversedEdgeCounted ==
    \A a, b \in agent_handles :
        (a # b /\ Predicted(a) /\ Predicted(b)) =>
            \A p \in ShortestPairs(a, b) :
                /\ raw[a][0][p[2]][10].n >= 1
                /\ raw[b][0][p[1]][10].n >= 1

\* C3 (amended): the condition is symmetric (the same edge is a pair for B
\* against A), and each agent has a positive deadlock count from the source
\* index of the first pair its own scan finds (the least index in the other
\* agent's packed path) to the end of its path; an edge that is not the
\* first pair found may keep the count 0 at its source index.
C3_FirstReversedEdgeCounted ==
    \A a, b \in agent_handles :
        (a # b /\ Predicted(a) /\ Predicted(b)) =>
            /\ \A p \in ShortestPairs(a, b) : <<p[2], p[1]>> \in ShortestPairs(b, a)
            /\ ShortestPairs(a, b) # {} =>
                LET p == first_deadlock(ShortestPositions(a), packed_weights[a], b)
                IN  \A k \in Depth :
                        (p[2] <= k /\ k < RowLength(a, 0)) =>
                            raw[a][0][k][10].n >= 1

\* two agents whose only reversed edge is counted once on both tensors
C3_Witness ==
    \E a, b \in agent_handles :
        /\ a # b /\ Predicted(a) /\ Predicted(b)
        /\ \E p \in ShortestPairs(a, b) :
            /\ ShortestPairs(a, b) = {p}
            /\ raw[a][0][p[2]][10] = Num(1)
            /\ raw[b][0][p[1]][10] = Num(1)

\* C4 (as stated): every crash-turn estimate stored in a tensor is finite
\* and greater than or equal to 0.
C4_CrashTurnNotNegative ==
    \A h \in agent_handles : Predicted(h) =>
        \A c \in Cells :
            IsFin(raw[h][c[1]][c[2]][11]) => Le(Num(0), raw[h][c[1]][c[2]][11])

\* C5: the deadlock count at any index exceeds the baseline of its row by
\* at most the number of other agents; and with two agents of times 1
\* whose paths share exactly one reversed, overlapping edge the count at
\* the source index of that edge is exactly 1 on both tensors.
C5_OncePerOtherAgent ==
    /\ \A h \in agent_handles : Predicted(h) =>
        \A c \in Cells :
            LET baseline == IF c[1] >= 2 THEN raw[h][0][c[1] - 2][10].n ELSE 0
            IN  /\ raw[h][c[1]][c[2]][10].n >= baseline
                /\ raw[h][c[1]][c[2]][10].n
                        <= baseline + Cardinality(other_agents(h))
    /\ \A a, b \in agent_handles :
        (/\ a # b /\ Predicted(a) /\ Predicted(b)
         /\ Cardinality(agent_handles) = 2
         /\ speed_data[a].times = 1 /\ speed_data[b].times = 1) =>
            \A p \in ShortestPairs(a, b) :
                ShortestPairs(a, b) = {p} =>
                    /\ raw[a][0][p[2]][10] = Num(1)
                    /\ raw[b][0][p[1]][10] = Num(1)

\* two agents of times 1 on one edge of weight 1 in opposite directions
C5_Witness ==
    \E a, b \in agent_handles :
        /\ a # b /\ Predicted(a) /\ Predicted(b)
        /\ speed_data[a].times = 1 /\ speed_data[b].times = 1
        /\ ShortestPairs(a, b) = {<<0, 0>>}
        /\ packed_weights[a][0] = 0 /\ packed_weights[a][1] = 1
        /\ packed_weights[b][0] = 0 /\ packed_weights[b][1] = 1
        /\ raw[a][0][0][10] = Num(1)
        /\ raw[b][0][0][10] = Num(1)

\* C6: in every row the deadlock count is non-decreasing over the indices
\* of the nodes of the path.
C6_DeadlocksNonDecreasing ==
    \A h \in agent_handles : Predicted(h) =>
        \A r \in Depth, k \in Depth :
            (k + 1 < RowLength(h, r)) =>
                raw[h][r][k][10].n <= raw[h][r][k + 1][10].n

\* a deadlock flagged at index 1 is counted at index 2 as well
C6_Witness ==
    \E h \in agent_handles :
        /\ Predicted(h)
        /\ RowLength(h, 0) = 3
        /\ raw[h][0][0][10] = Num(0)
        /\ raw[h][0][1][10] = Num(1)
        /\ raw[h][0][2][10] = Num(1)

\* C7 (as stated): the cumulative weights of the nodes of each path are
\* non-decreasing: the shortest-path weights, the packed weights and the
\* weights _fill_path_values uses for every deviation path.
C7_WeightsNonDecreasing ==
    \A h \in agent_handles : Predicted(h) =>
        /\ NonDecreasing(shortest_cum_weights[h], RowLength(h, 0))
        /\ NonDecreasing(packed_weights[h], RowLength(h, 0))
        /\ \A i \in 0..(max_depth - 2) :
            NonDecreasing(path_weights(h, predictions[h].deviations[i],
                                       shortest_cum_weights[h][i]),
                          RowLength(h, i + 1))

\* the value the counts of row i + 1 are compared with: the shortest row at
\* the branch index i, or at the index before it (0 for i = 0)
SeedValue(h, i, f, at_branch) ==
    IF at_branch THEN raw[h][0][i][f].n
    ELSE IF i >= 1 THEN raw[h][0][i - 1][f].n ELSE 0

\* the counts of row i + 1 start from the seed value: no count is under it,
\* none is over it by more than the number of other agents, and the
\* columns past the positions of the row hold it
Seeded(h, at_branch) ==
    \A i \in 0..(max_depth - 2), f \in SeededFeatures, k \in Depth :
        /\ raw[h][i + 1][k][f].n >= SeedValue(h, i, f, at_branch)
        /\ raw[h][i + 1][k][f].n
                <= SeedValue(h, i, f, at_branch) + Cardinality(other_agents(h))
        /\ k >= RowLength(h, i + 1) =>
                raw[h][i + 1][k][f].n = SeedValue(h, i, f, at_branch)

\* C8 (as stated): the deviation that branches from index i of the
\* shortest path starts its deadlock count and its four agent counts from
\* the values of the shortest row at index i.
C8_SeededAtBranchIndex ==
    \A h \in agent_handles : Predicted(h) => Seeded(h, TRUE)

\* C8 (amended): the deviation that branches from index i starts its
\* deadlock count and its four agent counts from the values of the shortest
\* row at index i - 1 when i >= 1, and from 0 when i = 0.
C8_SeededBeforeBranchIndex ==
    \A h \in agent_handles : Predicted(h) => Seeded(h, FALSE)

\* the shortest row counts a deadlock from index 1 and the deviation that
\* branches from index 1 starts from the 0 of index 0
C8_Witness ==
    \E h \in agent_handles :
        /\ Predicted(h)
        /\ raw[h][0][0][10] = Num(0)
        /\ raw[h][0][1][10] = Num(1)
        /\ RowLength(h, 2) > 0
        /\ \A k \in Depth : raw[h][2][k][10] = Num(0)

\* C9: a second get_many call without an environment step leaves
\* speed_data, last_nodes and last_positions as the first call left them,
\* and every tensor it returns is the tensor the first call returned.
C9_SecondCallIdempotent ==
    [][/\ (calls = 1 /\ calls' = 2) =>
            /\ speed_data' = speed_data
            /\ last_nodes' = last_nodes
            /\ last_positions' = last_positions
       /\ \A h \in agent_handles :
            (calls = 2 /\ h \in pending /\ h \notin pending' /\ failed' = {}) =>
                /\ raw'[h] = raw[h]
                /\ observations'[h] = observations[h]]_vars

\* a second call has completed after an agent has moved between two graph
\* nodes
C9_Witness ==
    /\ calls = 2
    /\ pending = {}
    /\ failed = {}
    /\ \E h \in agent_handles :
        /\ predictions[h].present
        /\ last_nodes[h][2] > 0
        /\ observations[h] # <<>>

\* C10: with a single agent, get returns; every entry of a node of a path
\* has agent counts, malfunctions and deadlock count 0 (LOWER once
\* normalized) and infinite conflict and deadlock distances (OVER once
\* normalized).
C10_SingleAgent ==
    \A h \in agent_handles :
        (Cardinality(agent_handles) = 1 /\ Built(h)) =>
            /\ h \notin failed
            /\ predictions[h].present =>
                \A r \in Depth, k \in Depth :
                    (k < RowLength(h, r)) =>
                        /\ \A f \in CountFeatures :
                            /\ raw[h][r][k][f] = Num(0)
                            /\ observations[h][r][k][f] = Num(LOWER)
                        /\ \A f \in DistanceFeatures :
                            /\ raw[h][r][k][f] = PInf
                            /\ observations[h][r][k][f] = Num(OVER)

\* the tensor of a single agent with a deviation path was returned
C10_Witness ==
    \E h \in agent_handles :
        /\ Cardinality(agent_handles) = 1
        /\ Returned(h)
        /\ predictions[h].present
        /\ RowLength(h, 1) = 3
        /\ observations[h][1][2][10] = Num(LOWER)
        /\ observations[h][1][2][11] = Num(OVER)

(***************************************************************************)
(* Properties of the speed data.                                           *)
(***************************************************************************)
\* the fraction n/d (n, d > 0) rounded to the nearest integer
RoundNearest(n, d) == (2 * n + d) \div (2 * d)

\* C11 (as stated): after reset and after every update each agent's
\* SpeedData has times >= 1 and 0 <= remaining < times.
C11_RemainingBelowTimes ==
    \A h \in agent_handles :
        /\ speed_data[h].times >= 1
        /\ 0 <= speed_data[h].remaining
        /\ speed_data[h].remaining < speed_data[h].times

\* C12 (as stated): each agent's times is 1/speed rounded to the nearest
\* integer.
C12_TimesIsRoundedReciprocal ==
    \A h \in agent_handles :
        speed_data[h].times
            = RoundNearest(Speed(world[h])[2], Speed(world[h])[1])


(***************************************************************************)
(* Properties of get.                                                      *)
(***************************************************************************)
\* a step in which get(h) runs
GetStep(h) == h \in pending /\ h \notin pending'

\* C13: get(h) changes, of the state the tensors are computed from, only
\* the entry of h in observations: the environment, speed_data, last_nodes,
\* last_positions and every agent's predictions, shortest paths, positions
\* and cumulative weights are unchanged, and so are the tensors of the
\* other agents; hence every tensor built in a tick is the tensor get would
\* build in the current state, whatever handles were processed before or
\* after it.
C13_GetChangesOnlyOwnEntry ==
    [][/\ \A g \in agent_handles :
            (Built(g) /\ pending = {}) => raw[g] = raw_observation(g)
       /\ \A h \in agent_handles : GetStep(h) =>
            /\ world' = world
            /\ speed_data' = speed_data
            /\ last_nodes' = last_nodes
            /\ last_positions' = last_positions
            /\ predictions' = predictions
            /\ shortest_paths' = shortest_paths
            /\ shortest_positions' = shortest_positions
            /\ shortest_cum_weights' = shortest_cum_weights
            /\ \A g \in agent_handles \ {h} :
                /\ observations'[g] = observations[g]
                /\ raw'[g] = raw[g]]_vars

\* both tensors of a tick are built, one after the other, while an agent is
\* between two graph nodes (its packed weights differ from its shortest
\* cumulative weights) and is counted as a deadlock on the other's path
C13_Witness ==
    \E h, g \in agent_handles :
        /\ h # g
        /\ Predicted(h) /\ Predicted(g)
        /\ packed_weights[g][0] # shortest_cum_weights[g][0]
        /\ \E k \in Depth : raw[h][0][k][10] = Num(1)


(***************************************************************************)
(* Properties of the scans over the other agents.                          *)
(***************************************************************************)
\* the other agents that have a live position
LiveOthers(h) == {g \in other_agents(h) : get_agent_cell(world[g]) # NoNode}

\* what the counts of row r start from (the seed of a deviation row)
Baseline(h, r, f) == IF r >= 2 THEN raw[h][0][r - 2][f].n ELSE 0

\* C14: an agent without a live position adds nothing to the scans: it is
\* no deadlock pair of any path, every agent count and deadlock count
\* exceeds what its row starts from by at most the number of other agents
\* that have a live position, and when no other agent has one the counts
\* keep that value, the malfunctions are 0 and the conflict and deadlock
\* distances are +inf.
C14_FinishedAgentsSkipped ==
    \A h \in agent_handles : Predicted(h) =>
        /\ \A g \in other_agents(h) \ LiveOthers(h) :
                ShortestPairs(h, g) = {}
        /\ \A c \in Cells :
            /\ \A f \in SeededFeatures :
                /\ raw[h][c[1]][c[2]][f].n
                        <= Baseline(h, c[1], f) + Cardinality(LiveOthers(h))
            /\ LiveOthers(h) = {} =>
                /\ \A f \in SeededFeatures :
                        raw[h][c[1]][c[2]][f].n = Baseline(h, c[1], f)
                /\ \A f \in {6, 7} : raw[h][c[1]][c[2]][f] = Num(0)
                /\ \A f \in DistanceFeatures : raw[h][c[1]][c[2]][f] = PInf

\* an agent has finished; its persisted last node is a cell of the path of
\* another agent, whose tensor counts no agent and no deadlock
C14_Witness ==
    \E h, g \in agent_handles :
        /\ h # g
        /\ Predicted(h)
        /\ Built(g)
        /\ get_agent_cell(world[g]) = NoNode
        /\ \E k \in Depth :
            /\ k < RowLength(h, 0)
            /\ ShortestPositions(h)[k] = packed_positions[g][0]
        /\ \A k \in Depth : raw[h][0][k][10] = Num(0) /\ raw[h][0][k][0] = Num(0)
        /\ raw[h][0][0][11] = PInf


(***************************************************************************)
(* Properties of _fill_path_values.                                        *)
(***************************************************************************)
\* the turns-to-deviation of row r: 0 for the shortest path, the cumulative
\* weight of the shortest path at the branch index for a deviation
RowTurns(h, r) == IF r = 0 THEN 0 ELSE shortest_cum_weights[h][r - 1]

\* the cumulative weights distance_from_target is called with for row r
RowWeights(h, r) == path_weights(h, RowPrediction(h, r), RowTurns(h, r))

\* C15: the target distance of a row is +inf at every index when the length
\* of its path is infinite; otherwise at every node index k of the path it
\* is length * times + turns_to_deviation - cumulative_weight[k], with
\* turns_to_deviation = 0 for the shortest path.
C15_TargetDistance ==
    \A h \in agent_handles : Predicted(h) =>
        \A r \in Depth :
            IF RowPrediction(h, r).lenght = PInf
            THEN \A k \in Depth : raw[h][r][k][8] = PInf
            ELSE \A k \in Depth : (k < RowLength(h, r)) =>
                    raw[h][r][k][8] =
                        Num(RowPrediction(h, r).lenght.n * speed_data[h].times
                            + RowTurns(h, r) - RowWeights(h, r)[k])

\* a tensor with an unreachable deviation and a deviation whose root is
\* reached after a positive number of turns: its target distance is the
\* length of the deviation at the root and 0 at its last node
C15_Witness ==
    \E h \in agent_handles :
        /\ Predicted(h)
        /\ RowPrediction(h, 1).lenght = PInf
        /\ raw[h][1][0][8] = PInf
        /\ RowLength(h, 2) = 3
        /\ RowTurns(h, 2) > 0
        /\ raw[h][2][0][8] = Num(2 * speed_data[h].times)
        /\ raw[h][2][2][8] = Num(0)


\* the cumulative weights and the positions of the deviation's own path
OwnWeights(h, r) ==
    Padded(compute_cumulative_weights(speed_data[h].times,
                RowPrediction(h, r).edges, RowTurns(h, r)), 0)

OwnPositions(h, r) ==
    [k \in DOMAIN RowPrediction(h, r).path |->
        Position(RowPrediction(h, r).path[k])]

\* C16 (as stated): for every deviation path, whatever the turns to its
\* root (0 included), _fill_path_values uses the deviation's own positions
\* and the cumulative weights turns-to-root plus the running sum of its own
\* edge weights times the agent's times, for the features and for the
\* deadlock scan.
C16_DeviationUsesOwnWeights ==
    \A h \in agent_handles : Predicted(h) =>
        \A r \in 1..(max_depth - 1) :
            (RowLength(h, r) > 0) =>
                /\ RowWeights(h, r) = OwnWeights(h, r)
                /\ positions_weights(h, RowPrediction(h, r), RowTurns(h, r))
                        = OwnWeights(h, r)
                /\ path_positions(h, RowPrediction(h, r), RowTurns(h, r))
                        = OwnPositions(h, r)


(***************************************************************************)
(* Properties of find_deadlocks.                                           *)
(***************************************************************************)
\* the positions and the weights find_deadlocks is called with for row r
RowPositions(h, r) == path_positions(h, RowPrediction(h, r), RowTurns(h, r))

RowPositionsWeights(h, r) ==
    positions_weights(h, RowPrediction(h, r), RowTurns(h, r))

\* some edge (j, j + 1) of the analysed path is an edge (i, i + 1) of real
\* nodes of the packed path of g, reversed, with overlapping windows
ReversedOverlappingEdge(positions, w, g) ==
    \E j \in 0..(Size(positions) - 2), i \in 0..(max_depth - 2) :
        /\ packed_positions[g][i] # -1
        /\ packed_positions[g][i + 1] # -1
        /\ positions[j] = packed_positions[g][i + 1]
        /\ positions[j + 1] = packed_positions[g][i]
        /\ w[j] <= packed_weights[g][i + 1]
        /\ w[j + 1] >= packed_weights[g][i]

\* C17: find_deadlocks counts another agent as a deadlock on the analysed
\* path if and only if an edge of the path is the reverse of an edge of
\* real nodes of that agent's packed path and w[j] <= other_w[i + 1] and
\* w[j + 1] >= other_w[i]: the deadlock count at the last node of every
\* row exceeds what the row starts from by the number of such agents.
C17_DeadlockIffReversedOverlap ==
    \A h \in agent_handles : Predicted(h) =>
        \A r \in Depth : (RowLength(h, r) > 0) =>
            raw[h][r][RowLength(h, r) - 1][10].n =
                Baseline(h, r, 10)
                + Cardinality({g \in other_agents(h) :
                    ReversedOverlappingEdge(RowPositions(h, r),
                                            RowPositionsWeights(h, r), g)})

\* an agent is counted on the shortest row for a reversed edge whose
\* windows only touch
C17_Witness ==
    \E h, g \in agent_handles :
        /\ h # g
        /\ Predicted(h) /\ Predicted(g)
        /\ \E p \in ShortestPairs(h, g) :
            \/ packed_weights[h][p[2]] = packed_weights[g][p[1] + 1]
            \/ packed_weights[h][p[2] + 1] = packed_weights[g][p[1]]
        /\ raw[h][0][RowLength(h, 0) - 1][10] = Num(1)


(***************************************************************************)
(* Properties of agents_in_path.                                           *)
(***************************************************************************)
\* what the scan of row r of h finds for the other agent g: whether g is
\* matched, at which index of the path, in which direction and at which
\* distance
Candidate(h, r, g) ==
    LET path == RowPrediction(h, r).path
        node == next_node(world[g])[1]
        v == matched_variant(path, node)
    IN  IF get_agent_cell(world[g]) = NoNode \/ v = 0
        THEN [matched |-> FALSE, index |-> 0, direction |-> 0,
              distance |-> PInf]
        ELSE LET other_node == get_nodes(Position(node))[v]
                 index == get_index(path, other_node)
                 direction == direction_of(path, index, other_node, node)
             IN  [matched |-> TRUE, index |-> index, direction |-> direction,
                  distance |-> agent_distance(h, RowWeights(h, r), index, g,
                                   next_node(world[g])[2], direction)]

\* the accumulators of the scan of row r of h after the agents of S
ScanAfter(h, r, S) ==
    agents_loop([num_agents |-> [k \in Depth |-> [c \in 0..3 |-> 0]],
                 distances |-> [k \in Depth |-> [c \in 0..1 |-> PInf]],
                 malfunctions |-> [k \in Depth |-> [c \in 0..1 |-> 0]]],
                h, RowPrediction(h, r).path, RowWeights(h, r), S)

\* the distance stored at the index and in the channel of the match of g
\* before and after the scan has processed g
StoredBefore(h, r, g) ==
    ScanAfter(h, r, {x \in other_agents(h) : x < g})
        .distances[Candidate(h, r, g).index][Candidate(h, r, g).direction]

StoredAfter(h, r, g) ==
    ScanAfter(h, r, {x \in other_agents(h) : x <= g})
        .distances[Candidate(h, r, g).index][Candidate(h, r, g).direction]

SameBucket(v, w) ==
    \/ Le(Num(0), v) /\ Le(Num(0), w)
    \/ Le(v, Num(0)) /\ Le(w, Num(0))

SmallerMagnitude(v, w) == Abs(v.n) * w.d < Abs(w.n) * v.d

\* the update rule; as stated, a negative value replaces a stored positive
\* one and nothing is said of a positive value that meets a stored negative
\* one
UpdateRule(before, new, after, as_stated) ==
    /\ before = PInf => after = new
    /\ (IsFin(before) /\ SameBucket(before, new)) =>
            after = IF SmallerMagnitude(new, before) THEN new ELSE before
    /\ (IsFin(before) /\ Lt(Num(0), before) /\ Lt(new, Num(0))) =>
            after = IF as_stated THEN new ELSE before
    /\ (~as_stated /\ Lt(before, Num(0)) /\ Lt(Num(0), new)) => after = new

UpdateRuleHolds(as_stated) ==
    \A h \in agent_handles : Predicted(h) =>
        \A r \in Depth : (RowLength(h, r) > 0) =>
            \A g \in other_agents(h) : Candidate(h, r, g).matched =>
                UpdateRule(StoredBefore(h, r, g), Candidate(h, r, g).distance,
                           StoredAfter(h, r, g), as_stated)

\* C18 (as stated): a stored +inf is always replaced; of two values of the
\* same sign bucket the one of strictly smaller magnitude is kept; a newly
\* computed negative value always replaces a stored non-negative one.
C18_NegativeReplacesNonNegative == UpdateRuleHolds(TRUE)

\* C18 (amended): a stored +inf is always replaced; of two values of the
\* same sign bucket the one of strictly smaller magnitude is kept; a newly
\* computed non-negative value always replaces a stored negative one, and a
\* newly computed negative value never replaces a stored non-negative one.
C18_NonNegativeReplacesNegative == UpdateRuleHolds(FALSE)

\* the scan of a shortest path has stored a positive distance and then
\* meets an agent at a negative distance at the same index and in the same
\* direction; the tensor holds the positive distance
C18_Witness ==
    \E h \in agent_handles :
        /\ Predicted(h)
        /\ \E g \in other_agents(h) :
            /\ Candidate(h, 0, g).matched
            /\ IsFin(StoredBefore(h, 0, g))
            /\ Lt(Num(0), StoredBefore(h, 0, g))
            /\ Lt(Candidate(h, 0, g).distance, Num(0))
            /\ raw[h][0][Candidate(h, 0, g).index]
                        [4 + Candidate(h, 0, g).direction]
                    = StoredBefore(h, 0, g)


\* the other agents the scan of row r of h matches
Matched(h, r) == {g \in other_agents(h) : Candidate(h, r, g).matched}

\* the classification of a matched agent: the matched node differs from
\* the agent's actual next node and the next node has more than one
\* successor, or the match is at the last node of the path, or the first
\* successor of the next node is not the node of the path after the match
Opposite(h, r, g) ==
    LET path == RowPrediction(h, r).path
        index == Candidate(h, r, g).index
        node == next_node(world[g])[1]
    IN  /\ path[index] # node
        /\ \/ Len(successors(node)) > 1
           \/ index = Size(path) - 1
           \/ /\ index < Size(path) - 1
              /\ Len(successors(node)) >= 1
              /\ successors(node)[1] # path[index + 1]

DirectionChannel(h, r, g) == IF Opposite(h, r, g) THEN 1 ELSE 0

\* the turns to reach the other agent, and the distance of the matched
\* index the turns are added to
TurnDistance(h, g) ==
    Fin(Abs(next_node(world[g])[2] * speed_data[g].times
            - speed_data[g].remaining) * speed_data[h].times,
        speed_data[g].times)

BaseDistance(h, r, index) ==
    IF RowWeights(h, r)[index] < speed_data[h].times
    THEN Num(speed_data[h].remaining - speed_data[h].times)
    ELSE Num(RowWeights(h, r)[index])

\* C19: a matched agent is counted in the opposite-direction channel
\* exactly when the matched node differs from its actual next node and
\* (the next node has more than one successor, or the match is at the last
\* node of the path, or the first successor of the next node differs from
\* the node of the path after the match); in every other case it is counted
\* in the same-direction channel and its turn-distance is negated.
C19_DirectionClassification ==
    \A h \in agent_handles : Predicted(h) =>
        \A r \in Depth : (RowLength(h, r) > 0) =>
            /\ \A c \in 0..1 :
                raw[h][r][RowLength(h, r) - 1][c].n =
                    Baseline(h, r, c)
                    + Cardinality({g \in Matched(h, r) :
                                        DirectionChannel(h, r, g) = c})
            /\ \A g \in Matched(h, r) :
                LET index == Candidate(h, r, g).index
                    c == DirectionChannel(h, r, g)
                IN  (\A x \in Matched(h, r) \ {g} :
                        \/ Candidate(h, r, x).index # index
                        \/ DirectionChannel(h, r, x) # c) =>
                    raw[h][r][index][4 + c] =
                        IF c = 1
                        THEN AddFin(BaseDistance(h, r, index), TurnDistance(h, g))
                        ELSE SubFin(BaseDistance(h, r, index), TurnDistance(h, g))

\* an agent whose next node has a single successor is matched at the last
\* node of a shortest path in the other orientation, and is counted in the
\* opposite-direction channel
C19_Witness ==
    \E h \in agent_handles :
        /\ Predicted(h)
        /\ \E g \in Matched(h, 0) :
            /\ Candidate(h, 0, g).index = RowLength(h, 0) - 1
            /\ Len(successors(next_node(world[g])[1])) = 1
            /\ RowPrediction(h, 0).path[RowLength(h, 0) - 1]
                    # next_node(world[g])[1]
            /\ raw[h][0][RowLength(h, 0) - 1][1] = Num(1)
            /\ raw[h][0][RowLength(h, 0) - 1][0] = Num(0)


\* C20: an agent matched at index m of a path adds 1 to the count of its
\* direction at exactly the indices m .. len(path) - 1, and 1 to the
\* malfunctioning count of that direction at the same indices if and only
\* if its malfunction is greater than 0; the counts before m, at or beyond
\* len(path) and of the other direction keep their value.
C20_CountsFromMatchedIndex ==
    \A h \in agent_handles : Predicted(h) =>
        \A r \in Depth : (RowLength(h, r) > 0) =>
            \A k \in Depth, c \in 0..3 :
                raw[h][r][k][c].n =
                    Baseline(h, r, c)
                    + Cardinality({g \in Matched(h, r) :
                        /\ Candidate(h, r, g).index <= k
                        /\ k < RowLength(h, r)
                        /\ \/ c = Candidate(h, r, g).direction
                           \/ /\ c = Candidate(h, r, g).direction + 2
                              /\ world[g].malfunction > 0})

\* a malfunctioning agent and one that is not are matched after the first
\* node of two paths: the counts are 0 before the matched index and in the
\* other direction, and the malfunctioning count is 1 for the first only
C20_Witness ==
    \E h, g \in agent_handles :
        /\ h # g /\ Predicted(h) /\ Predicted(g)
        /\ g \in Matched(h, 0) /\ h \in Matched(g, 0)
        /\ world[g].malfunction > 0
        /\ world[h].malfunction = 0
        /\ LET m == Candidate(h, 0, g).index
               d == Candidate(h, 0, g).direction
               n == Candidate(g, 0, h).index
               e == Candidate(g, 0, h).direction
           IN  /\ m >= 1
               /\ raw[h][0][m - 1][d] = Num(0)
               /\ raw[h][0][m][d] = Num(1)
               /\ raw[h][0][m][d + 2] = Num(1)
               /\ raw[h][0][m][1 - d] = Num(0)
               /\ raw[g][0][n][e] = Num(1)
               /\ raw[g][0][n][e + 2] = Num(0)


\* the node variants at the cell of the next node of g that are in the path
\* of row r of h, as indices of get_nodes
VariantsInPath(h, r, g) ==
    LET nodes == get_nodes(Position(next_node(world[g])[1]))
    IN  {v \in DOMAIN nodes :
            \E k \in DOMAIN RowPrediction(h, r).path :
                RowPrediction(h, r).path[k] = nodes[v]}

\* the index in the path of the first of these variants
FirstVariantIndex(h, r, g) ==
    LET nodes == get_nodes(Position(next_node(world[g])[1]))
        v == First(VariantsInPath(h, r, g))
        path == RowPrediction(h, r).path
    IN  First({k \in DOMAIN path : path[k] = nodes[v]})

PackedNode(g, i) == IF i = 0 THEN last_nodes[g][1] ELSE shortest_paths[g][i]

\* C22 (as stated): the popularity of each node of the analysed path is the
\* number of other agents with a prediction whose packed shortest path
\* holds that exact node (cell and orientation) at some index. It is stated
\* for the shortest path and for the deviations whose root is reached after
\* a positive number of turns, which are scanned with their own positions.
C22_PopularityCountsExactNodes ==
    \A h \in agent_handles : Predicted(h) =>
        \A r \in Depth, k \in Depth :
            (k < RowLength(h, r) /\ (r = 0 \/ RowTurns(h, r) > 0)) =>
            raw[h][r][k][9].n =
                Cardinality({g \in other_agents(h) :
                    /\ predictions[g].present
                    /\ \E i \in Depth : PackedNode(g, i) # NoNode
                            /\ PackedNode(g, i) = RowPrediction(h, r).path[k]})

\* C22 (amended): the popularity at index k of a row is the number of other
\* agents whose shortest positions (the cells of their shortest path, not
\* packed, whatever the orientation) hold, at some index, the k-th position
\* common_nodes is called with; an agent without a prediction contributes 0
\* wherever that position is a cell.
C22_PopularityCountsCells ==
    \A h \in agent_handles : Predicted(h) =>
        \A r \in Depth, k \in Depth : (k < RowLength(h, r)) =>
            /\ raw[h][r][k][9].n =
                Cardinality({g \in other_agents(h) :
                    \E i \in Depth :
                        shortest_positions[g][i] = RowPositions(h, r)[k]})
            /\ RowPositions(h, r)[k] # -1 =>
                raw[h][r][k][9].n =
                    Cardinality({g \in other_agents(h) :
                        /\ predictions[g].present
                        /\ \E i \in Depth :
                            shortest_positions[g][i] = RowPositions(h, r)[k]})

\* an agent that passes a cell of the path in the other orientation is
\* counted there, and an agent between two graph nodes is not counted at
\* the cell of the node it has left
C22_Witness ==
    \E h, g \in agent_handles :
        /\ h # g /\ Predicted(h) /\ Predicted(g)
        /\ \E k \in Depth :
            /\ k < RowLength(h, 0)
            /\ raw[h][0][k][9] = Num(1)
            /\ \A i \in Depth : PackedNode(g, i) # RowPrediction(h, 0).path[k]
        /\ \E k \in Depth :
            /\ k < RowLength(g, 0)
            /\ raw[g][0][k][9] = Num(0)
            /\ RowPositions(g, 0)[k] = Position(last_nodes[h][1])
            /\ shortest_positions[h][0] # Position(last_nodes[h][1])

TicksSinceNode(a) ==
    IF a.off = 0 THEN 0
    ELSE (a.off - 1) * CeilDiv(a.speed[2], a.speed[1]) + a.sub + 1

\* C24 (as stated): once get_many has run in a tick, the last node of each
\* agent that has a prediction is the graph node it has visited last, and
\* its counter is the number of ticks elapsed since the agent left it: 0 on
\* the node, one more for every tick between graph nodes.
C24_CounterIsTicksSinceNode ==
    \A h \in agent_handles : (calls >= 1 /\ predictions[h].present) =>
        /\ last_nodes[h][1] = previous_node(world[h])[1]
        /\ last_nodes[h][2] = TicksSinceNode(world[h])

(***************************************************************************)
(* Properties of the crash-turn estimate.                                  *)
(***************************************************************************)
\* the space of the claim, as the fraction <<n, d>>: the width of the edge
\* of handle, less both elapsed fractions when both entry weights are
\* negative, else less the elapsed fraction of agent when handle enters
\* later, else plus the elapsed fraction of handle, in the tick units of
\* handle, when agent enters later
StatedSpace(handle, cum_weights, j, agent, i) ==
    LET th == speed_data[handle].times
        ta == speed_data[agent].times
        cw == cum_weights[j]
        pw == packed_weights[agent][i]
        width == (cum_weights[j + 1] - cw) * ta
    IN  IF cw < 0 /\ pw < 0
        THEN <<width + cw * ta + pw * th, th * ta>>
        ELSE IF cw > pw
        THEN <<width - Abs(cw - Abs(pw)) * th, th * ta>>
        ELSE IF pw > cw
        THEN <<width + Abs(pw - Abs(cw)) * ta, th * ta>>
        ELSE <<width, th * ta>>

\* ceil(max(w[j], 0) + space / (t_other * t_this / (t_other + t_this)))
StatedCrashTurn(handle, cum_weights, j, agent, i) ==
    LET sp == StatedSpace(handle, cum_weights, j, agent, i)
        th == speed_data[handle].times
        ta == speed_data[agent].times
    IN  Max2(cum_weights[j], 0) + CeilDiv(sp[1] * (ta + th), sp[2] * ta * th)

\* C25 (as stated): with one other agent, the crash-turn stored at the
\* source index j of the edge on which the deadlock with that agent is
\* flagged is ceil(max(w[j], 0) + space / (t_other * t_this / (t_other +
\* t_this))), where space is the width of this agent's edge adjusted by
\* the one branch that applies; when the other agent enters later, space
\* grows by this agent's elapsed fraction in this agent's tick units.
C25_CrashTurnEstimate ==
    \A h \in agent_handles : Predicted(h) =>
        \A g \in other_agents(h), r \in Depth :
            (/\ other_agents(h) = {g}
             /\ RowLength(h, r) > 0
             /\ deadlock_pairs(RowPositions(h, r),
                               RowPositionsWeights(h, r), g) # {}) =>
                LET p == first_deadlock(RowPositions(h, r),
                                        RowPositionsWeights(h, r), g)
                IN  raw[h][r][p[2]][11] =
                        Num(StatedCrashTurn(h, RowPositionsWeights(h, r),
                                            p[2], g, p[1]))

(***************************************************************************)
(* Properties of get_many.                                                 *)
(***************************************************************************)
\* the state _update_shortest leaves for agent g is the one computed from
\* the prediction and the environment of the current tick
UpToDate(g) ==
    LET prediction == Prediction(world[g])
    IN  /\ predictions[g] = prediction
        /\ speed_data[g].remaining = remaining_turns_in_cell(world[g])
        /\ shortest_paths[g] = Padded(prediction.shortest.path, NoNode)
        /\ shortest_positions[g] =
                [i \in Depth |-> Position(shortest_paths[g][i])]
        /\ shortest_cum_weights[g] =
                Padded(compute_cumulative_weights(
                            speed_data[g].times, prediction.shortest.edges,
                            speed_data[g].remaining), 0)
        /\ last_positions[g] = prediction.shortest.path[0]
        /\ (prediction.shortest.path[0] \in graph_nodes) =>
                last_nodes[g] = <<prediction.shortest.path[0], 0>>

\* C26: in every step of get_many in which get(h) runs, the speed data,
\* shortest path, positions, cumulative weights and last node of every
\* agent that has a prediction, processed or still to be processed, are
\* already those of the current tick, and the step leaves the packed
\* positions and weights as they are: every get of a tick reads the same,
\* complete, packed arrays.
C26_UpdatedBeforeAnyGet ==
    [][\A h \in agent_handles : GetStep(h) =>
            /\ \A g \in agent_handles :
                    (~world[g].done) => UpToDate(g)
            /\ packed_positions' = packed_positions
            /\ packed_weights' = packed_weights]_vars

\* in a later tick, the tensor of the first handle is built while the get
\* of the second handle is still to run and the second agent, between two
\* graph nodes, is already updated
C26_Witness ==
    \E h, g \in agent_handles :
        /\ h < g
        /\ tick >= 1
        /\ pending = {g}
        /\ Predicted(h)
        /\ predictions[g].present
        /\ shortest_paths[g][0] \notin graph_nodes
        /\ last_positions[g] = shortest_paths[g][0]
        /\ last_nodes[g][2] >= 1
        /\ raw[h] = raw_observation(h)

(***************************************************************************)
(* The order in which the other agents are visited.                        *)
(***************************************************************************)
\* the orders in which the agents of S can be visited
Orders(S) ==
    {o \in [1..Cardinality(S) -> S] :
        \A a, b \in 1..Cardinality(S) : a # b => o[a] # o[b]}

\* the loop of agents_in_path and the loop of find_deadlocks over the other
\* agents taken in the order o, from its n-th agent on
RECURSIVE AgentsScan(_, _, _, _, _, _)
AgentsScan(acc, h, path, cum_weights, o, n) ==
    IF n > Len(o)
    THEN acc
    ELSE AgentsScan(agents_step(acc, h, path, cum_weights, o[n]),
                    h, path, cum_weights, o, n + 1)

RECURSIVE DeadlockScan(_, _, _, _, _, _)
DeadlockScan(acc, h, positions, cum_weights, o, n) ==
    IF n > Len(o)
    THEN acc
    ELSE DeadlockScan(deadlock_step(acc, h, positions, cum_weights, o[n]),
                      h, positions, cum_weights, o, n + 1)

\* what agents_in_path and find_deadlocks return for row r of h when the
\* other agents are visited in the order o
AgentsInOrder(h, r, o) ==
    AgentsScan([num_agents |->
                    [k \in Depth |-> [c \in 0..3 |-> Baseline(h, r, c)]],
                distances |-> [k \in Depth |-> [c \in 0..1 |-> PInf]],
                malfunctions |-> [k \in Depth |-> [c \in 0..1 |-> 0]]],
               h, RowPrediction(h, r).path, RowWeights(h, r), o, 1)

DeadlocksInOrder(h, r, o) ==
    DeadlockScan([deadlocks |-> [k \in Depth |-> Baseline(h, r, 10)],
                  crash_turns |-> [k \in Depth |-> PInf]],
                 h, RowPositions(h, r), RowPositionsWeights(h, r), o, 1)

\* the distances of the agents matched at index k in direction c
Candidates(h, r, k, c) ==
    {Candidate(h, r, g).distance : g \in
        {x \in Matched(h, r) : /\ Candidate(h, r, x).index = k
                               /\ Candidate(h, r, x).direction = c}}

\* the smallest non-negative candidate when there is one, otherwise the
\* negative candidate closest to zero, +inf without candidate
BestCandidate(D) ==
    IF D = {} THEN PInf
    ELSE IF \E d \in D : Le(Num(0), d)
    THEN min_value({d \in D : Le(Num(0), d)})
    ELSE max_value(D)

\* C27: for every order of the other agents, agents_in_path returns the
\* counts, the malfunction maxima and the distances of the tensor, the
\* distance of an index being the smallest non-negative candidate when
\* there is one and otherwise the negative candidate closest to zero, and
\* find_deadlocks returns the deadlock counts and crash-turns of the tensor.
C27_OrderIndependent ==
    \A h \in agent_handles : Predicted(h) =>
        \A r \in Depth : (RowLength(h, r) > 0) =>
            /\ \A o \in Orders(other_agents(h)) :
                LET aip == AgentsInOrder(h, r, o)
                    fd == DeadlocksInOrder(h, r, o)
                IN  \A k \in Depth :
                        /\ \A c \in 0..3 :
                            raw[h][r][k][c] = Num(aip.num_agents[k][c])
                        /\ \A c \in 0..1 :
                            /\ raw[h][r][k][4 + c] = aip.distances[k][c]
                            /\ raw[h][r][k][6 + c] = Num(aip.malfunctions[k][c])
                        /\ raw[h][r][k][10] = Num(fd.deadlocks[k])
                        /\ raw[h][r][k][11] = fd.crash_turns[k]
            /\ \A k \in Depth, c \in 0..1 :
                raw[h][r][k][4 + c] = BestCandidate(Candidates(h, r, k, c))

\* two other agents are matched at the same index and in the same direction
\* of the shortest path at different distances, and the first of them is
\* the one whose distance is not kept
C27_Witness ==
    \E h \in agent_handles :
        /\ Predicted(h)
        /\ \E a, b \in Matched(h, 0) :
            /\ a < b
            /\ Candidate(h, 0, a).index = Candidate(h, 0, b).index
            /\ Candidate(h, 0, a).direction = Candidate(h, 0, b).direction
            /\ Candidate(h, 0, a).distance # Candidate(h, 0, b).distance
            /\ raw[h][0][Candidate(h, 0, b).index]
                        [4 + Candidate(h, 0, b).direction]
                    = Candidate(h, 0, b).distance

(***************************************************************************)
(* Properties of the agent counts.                                         *)
(***************************************************************************)
\* C28: within the populated part of every path row, each of the four
\* agent-count channels is non-decreasing from left to right, and at every
\* index the count of malfunctioning agents of a direction is at most the
\* count of agents of that direction, provided the counts the row starts
\* from satisfy the same inequality.
C28_CountsMonotone ==
    \A h \in agent_handles : Predicted(h) =>
        \A r \in Depth : (RowLength(h, r) > 0) =>
            /\ \A k \in 0..(RowLength(h, r) - 2), c \in 0..3 :
                raw[h][r][k][c].n <= raw[h][r][k + 1][c].n
            /\ \A c \in 0..1 :
                (Baseline(h, r, c + 2) <= Baseline(h, r, c)) =>
                    \A k \in 0..(RowLength(h, r) - 1) :
                        raw[h][r][k][c + 2].n <= raw[h][r][k][c].n

\* on the shortest row a healthy and a malfunctioning agent are counted in
\* one direction from an inner index on, and a deviation row starts from a
\* count of 1 and a malfunctioning count of 1 in one direction
C28_Witness ==
    \E h \in agent_handles :
        /\ Predicted(h)
        /\ \E c \in 0..1 :
            /\ RowLength(h, 0) > 1
            /\ \E k \in 0..(RowLength(h, 0) - 2) :
                /\ raw[h][0][k][c].n < raw[h][0][k + 1][c].n
                /\ raw[h][0][k + 1][c + 2] = Num(1)
                /\ raw[h][0][k + 1][c].n >= 2
        /\ \E r \in 2..(max_depth - 1), c \in 0..1 :
            /\ RowLength(h, r) > 0
            /\ Baseline(h, r, c) >= 1
            /\ Baseline(h, r, c + 2) >= 1

(***************************************************************************)
(* The episode loop of train_agents (the loop of eval_policy has the same  *)
(* statements): the agents that share a start position.                    *)
(***************************************************************************)
NumTrains == 3

MaxSteps == 3

StartPositions == 1..2

TrainHandles == 0..(NumTrains - 1)

DO_NOTHING == 0

MOVE_LEFT == 1

MOVE_FORWARD == 2

Range(f) == {f[x] : x \in DOMAIN f}

\* the handles of the order o that start at position p, in that order
StartingAt(o, at, p) ==
    LET starts_here(a) == at[a] = p
    IN  SelectSeq([i \in 1..NumTrains |-> o[i]], starts_here)

\* get_agents_same_start(): for every start position the list of the
\* handles that start there, in some order
SameStartLists ==
    {[p \in StartPositions |-> StartingAt(o, at, p)] :
        o \in Orders(TrainHandles), at \in [TrainHandles -> StartPositions]}

\* the observation builder takes no part in the loop that is modelled
NoObservation ==
    /\ world = <<>>
    /\ tick = 0
    /\ agent_handles = {}
    /\ speed_data = <<>>
    /\ last_nodes = <<>>
    /\ last_positions = <<>>
    /\ predictions = <<>>
    /\ shortest_paths = <<>>
    /\ shortest_positions = <<>>
    /\ shortest_cum_weights = <<>>
    /\ observations = <<>>
    /\ raw = <<>>
    /\ normalized_observation = <<>>
    /\ pending = {}
    /\ calls = 0
    /\ failed = {}

\* lines 142-152: reset() has returned info, the lists are computed
InitTrain ==
    /\ NoObservation
    /\ NoPolicyCall
    /\ start_lists \in SameStartLists
    /\ agents_with_same_start = start_lists
    /\ step = 0
    /\ action_required \in [TrainHandles -> BOOLEAN]
    /\ action_dict = [a \in TrainHandles |-> DO_NOTHING]
    /\ pc = "prioritize"

\* a variant of Prioritize that forces the agents of a list before it
\* removes the first of them
Prioritize_forces_first ==
    /\ pc = "prioritize"
    /\ step < MaxSteps
    /\ agents_with_same_start' =
            [p \in StartPositions |->
                IF Len(agents_with_same_start[p]) > 0
                THEN Tail(agents_with_same_start[p])
                ELSE agents_with_same_start[p]]
    /\ action_required' =
            [a \in TrainHandles |->
                IF \E p \in StartPositions :
                        a \in Range(agents_with_same_start[p])
                THEN FALSE
                ELSE action_required[a]]
    /\ pc' = "act"
    /\ UNCHANGED <<observation_vars, policy_vars, start_lists, step,
                   action_dict>>

\* lines 175-180: the first agent of every list is removed and the agents
\* left in the list are not asked for an action
Prioritize ==
    /\ pc = "prioritize"
    /\ step < MaxSteps
    /\ agents_with_same_start' =
            [p \in StartPositions |->
                IF Len(agents_with_same_start[p]) > 0
                THEN Tail(agents_with_same_start[p])
                ELSE agents_with_same_start[p]]
    /\ action_required' =
            [a \in TrainHandles |->
                IF \E p \in StartPositions :
                        a \in Range(agents_with_same_start'[p])
                THEN FALSE
                ELSE action_required[a]]
    /\ pc' = "act"
    /\ UNCHANGED <<observation_vars, policy_vars, start_lists, step,
                   action_dict>>

\* lines 184-218: DO_NOTHING for an agent that needs no action, else the
\* action of the policy or the only legal action
ComputeActions ==
    /\ pc = "act"
    /\ action_dict' \in
            {d \in [TrainHandles -> {DO_NOTHING, MOVE_LEFT, MOVE_FORWARD}] :
                \A a \in TrainHandles :
                    d[a] = DO_NOTHING <=> ~action_required[a]}
    /\ pc' = "step"
    /\ UNCHANGED <<observation_vars, policy_vars, start_lists,
                   agents_with_same_start, step, action_required>>

\* lines 221-224: the environment steps and returns a new info
TrainEnvStep ==
    /\ pc = "step"
    /\ action_required' \in [TrainHandles -> BOOLEAN]
    /\ step' = step + 1
    /\ pc' = "prioritize"
    /\ UNCHANGED <<observation_vars, policy_vars, start_lists,
                   agents_with_same_start, action_dict>>

NextTrain ==
    \/ Prioritize
    \/ ComputeActions
    \/ TrainEnvStep

SpecTrain == InitTrain /\ [][NextTrain]_vars

\* the index of agent a in the list of its start position, from 0
ListIndex(a) ==
    LET p == CHOOSE q \in StartPositions : a \in Range(start_lists[q])
    IN  (CHOOSE i \in 1..Len(start_lists[p]) : start_lists[p][i] = a) - 1

\* C29: in step s of the episode the rule forces action_required to False
\* for exactly the agents whose index in the list of their start position
\* is greater than s, and leaves it as the environment returned it for the
\* others; a forced agent is given DO_NOTHING; and of every start position
\* at most one agent, the one of index s, leaves the list in step s.
C29_ReleasedOnePerStep ==
    [][/\ (pc = "prioritize" /\ pc' = "act") =>
            /\ \A a \in TrainHandles :
                IF ListIndex(a) > step
                THEN action_required'[a] = FALSE
                ELSE action_required'[a] = action_required[a]
            /\ \A p \in StartPositions :
                LET released == Range(agents_with_same_start[p])
                                    \ Range(agents_with_same_start'[p])
                IN  /\ Cardinality(released) <= 1
                    /\ \A a \in released : ListIndex(a) = step
       /\ (pc = "act" /\ pc' = "step") =>
            \A a \in TrainHandles :
                ListIndex(a) > step => action_dict'[a] = DO_NOTHING]_vars

\* in step 1, of three agents that share a start position the second acts
\* and the third, for which the environment asked an action, is given
\* DO_NOTHING
C29_Witness ==
    /\ pc = "step"
    /\ step = 1
    /\ \E p \in StartPositions :
        /\ Len(start_lists[p]) = 3
        /\ Len(agents_with_same_start[p]) = 1
        /\ action_required[start_lists[p][2]]
        /\ action_dict[start_lists[p][2]] # DO_NOTHING
        /\ ~action_required[start_lists[p][3]]
        /\ action_dict[start_lists[p][3]] = DO_NOTHING

(***************************************************************************)
(* policy_utils: masked_max and masked_argmax, for two-dimensional arrays  *)
(* and dim = 1.                                                            *)
(***************************************************************************)
MaxRows == 2

MaxCols == 2

\* the float values of vec: -inf and two finite values
VecValues == {NInf, Num(0), Num(1)}

Arrays(values) ==
    UNION {[0..(rows - 1) -> [0..(cols - 1) -> values]] :
                rows \in 1..MaxRows, cols \in 1..MaxCols}

\* vec.shape == mask.shape
same_shape(v, m) ==
    /\ DOMAIN v = DOMAIN m
    /\ \A r \in DOMAIN v : DOMAIN v[r] = DOMAIN m[r]

\* np.all(mask.astype(bool).any(axis=dim))
any_valid(m) == \A r \in DOMAIN m : \E c \in DOMAIN m[r] : m[r][c] # 0

\* res = vec.copy(); res[~mask.astype(bool)] = np.nan
masked_res(v, m) ==
    [r \in DOMAIN v |-> [c \in DOMAIN v[r] |->
        IF m[r][c] # 0 THEN v[r][c] ELSE NaN]]

\* np.nanmax of a slice: the greatest value that is not a NaN, NaN when
\* there is none
nanmax(slice) ==
    LET numbers == {slice[c] : c \in DOMAIN slice} \ {NaN}
    IN  IF numbers = {} THEN NaN ELSE max_value(numbers)

\* a slice of NaNs only
all_nan(slice) == \A c \in DOMAIN slice : slice[c] = NaN

\* np.nanargmax of a slice that is not all NaN: every NaN is replaced by
\* -inf and the first index of the greatest value is taken
nanargmax(slice) ==
    LET replaced == [c \in DOMAIN slice |->
                        IF slice[c] = NaN THEN NInf ELSE slice[c]]
    IN  CHOOSE c \in DOMAIN slice :
            /\ \A d \in DOMAIN slice : Le(replaced[d], replaced[c])
            /\ \A d \in DOMAIN slice : d < c => Lt(replaced[d], replaced[c])

\* lines 46-55
masked_max(v, m) ==
    IF ~same_shape(v, m) \/ ~any_valid(m)
    THEN Raised("AssertionError")
    ELSE Result([r \in DOMAIN v |-> nanmax(masked_res(v, m)[r])])

\* lines 58-75; np.nanargmax raises ValueError for a slice of NaNs
masked_argmax(v, m) ==
    IF ~same_shape(v, m) \/ ~any_valid(m)
    THEN Raised("AssertionError")
    ELSE IF \E r \in DOMAIN v : all_nan(masked_res(v, m)[r])
    THEN Raised("ValueError")
    ELSE Result([r \in DOMAIN v |-> nanargmax(masked_res(v, m)[r])])

InitPolicy ==
    /\ NoObservation
    /\ NoLoop
    /\ vec \in Arrays(VecValues)
    /\ mask \in Arrays({0, 1})
    /\ max_arr = NotCalled
    /\ argmax_arr = NotCalled

MaskedMax ==
    /\ max_arr = NotCalled
    /\ max_arr' = masked_max(vec, mask)
    /\ UNCHANGED <<observation_vars, loop_vars, vec, mask, argmax_arr>>

MaskedArgmax ==
    /\ argmax_arr = NotCalled
    /\ argmax_arr' = masked_argmax(vec, mask)
    /\ UNCHANGED <<observation_vars, loop_vars, vec, mask, max_arr>>

NextPolicy ==
    \/ MaskedMax
    \/ MaskedArgmax

SpecPolicy == InitPolicy /\ [][NextPolicy]_vars

\* the greatest of the values of the valid entries of slice r
ValidMax(r) ==
    max_value({vec[r][c] : c \in {d \in DOMAIN vec[r] : mask[r][d] # 0}})

\* C30 (as stated): when vec and mask have the same shape and every slice
\* has a valid entry, masked_argmax returns for each slice an index whose
\* mask entry is valid and whose value is the masked_max of the slice, the
\* greatest of the valid entries; otherwise the assertion fails.
C30_ArgmaxIsValidMaximum ==
    (argmax_arr # NotCalled /\ max_arr # NotCalled) =>
        IF same_shape(vec, mask) /\ any_valid(mask)
        THEN /\ argmax_arr.state = "returned"
             /\ max_arr.state = "returned"
             /\ \A r \in DOMAIN vec :
                    /\ argmax_arr.value[r] \in DOMAIN vec[r]
                    /\ mask[r][argmax_arr.value[r]] # 0
                    /\ vec[r][argmax_arr.value[r]] = max_arr.value[r]
                    /\ max_arr.value[r] = ValidMax(r)
        ELSE argmax_arr = Raised("AssertionError")

=============================================================================
